---- MODULE Spec2Model ----
(***************************************************************************)
(* A model of the dataflow core of scipipe: the shell process and its      *)
(* tasks (src/unnamed/part_001), the file and parameter ports              *)
(* (src/unnamed/part_000) and the information packet (src/ip.go).          *)
(*                                                                         *)
(* Eleven specifications share the module:                                 *)
(*   Spec        one ShellProcess.Run with its createTasks goroutine, its  *)
(*               task goroutines, the files on disk and a rerun            *)
(*   SpecPeer    one such run next to a component that removes FIFOs       *)
(*   SpecNoPorts the run of a process without ports, under fairness        *)
(*   SpecSweep   a process fed by ConnectStr on its one parameter port     *)
(*   SpecFlow    generators, merger, shell process and sink in a row       *)
(*   SpecPipe    a consumer process reading a streaming output             *)
(*   SpecFormat  formatCommand on bounded command patterns                 *)
(*   SpecMerge   FilePort.RunMergeInputs over several inbound channels     *)
(*   SpecSend    FilePort.Connect and FilePort.Send to several subscribers *)
(*   SpecParam   ParamPort.Connect and ParamPort.ConnectStr                *)
(*   SpecGather  createTasks of a process with several ports               *)
(* Each specification moves its own variables and leaves the others at     *)
(* their idle value.                                                       *)
(***************************************************************************)
EXTENDS Integers, Sequences, FiniteSets, TLC

\* Bounds of the model.
MaxTasks == 2      \* input IPs the upstream delivers, so tasks per run
BUFSIZE == 1       \* capacity of every port channel (make(chan, BUFSIZE))

VARIABLES
  \* ---- configuration of the shell process (fixed by Init) ----
  OutPortsDoStream,  \* ShellProcess.OutPortsDoStream: out-port name -> BOOLEAN
  PathFormatters,    \* ShellProcess.PathFormatters: out-port name -> "Static" | "Extend"
  InPorts,           \* names of the input ports of the process ({} or {"in"})
  ShellParamPorts,   \* ShellProcess.ParamPorts: names of its parameter ports ({} or {"p"})
  nInputs,           \* number of IPs the upstream sends on the in-port before closing it
  \* ---- the disk ----
  fs,                \* file name -> 0 (absent), -1 (present before the run), t (written by task t)
  \* ---- ShellProcess.Run ----
  runNo,             \* 1 in the first run of the workflow, 2 in the rerun
  fatal,             \* a Check(err) failed: the program has exited
  pc,                \* position of Run
  tasks,             \* Run's local list tasks (task ids in creation order)
  cur,               \* the task Run is handling (first loop) / waiting for (second loop)
  toSend,            \* out-ports of cur that the current send loop has still to serve
  anyPreviousFifosExists, \* task -> the value Run computed for it
  outChan,           \* out-port name -> buffered IPs not yet received downstream
  outClosed,         \* out-port name -> number of times the channel was closed
  sent,              \* out-port name -> every IP sent on the port so far (history)
  \* ---- createTasks goroutine ----
  cpc,               \* position of the goroutine
  inLeft,            \* IPs still to arrive on the in-port
  created,           \* number of tasks built so far
  params,            \* task -> the value receiveParams read for it ("" if none)
  gathers,           \* iterations of the loop of createTasks so far (history)
  \* ---- task goroutines ----
  tpc,               \* task -> position of its goroutine
  atomLeft,          \* task -> out-ports atomizeTargets has still to atomize
  atomCur,           \* task -> out-port whose Atomize is running ("" if none)
  execs,             \* task -> number of times its command was started (history)
  doneSent,          \* task -> sentinels written to t.Done (history)
  doneClosed,        \* task -> number of close(t.Done) (history)
  route,             \* task -> the path the task took (history)
  doneOrder,         \* the tasks in the order they came to signal done (history)
  \* ---- file ports (SpecMerge, SpecSend) ----
  ports,             \* port name -> FilePort: [inChans, outChans, connected]
  chans,             \* channel -> [buf: the buffered IPs, closed: BOOLEAN]
  gen,               \* IPGen name -> [paths: Len(FilePaths), k: IPs sent, i: position
                     \*   of Send in outChans, closed: Run has returned]
  merger,            \* port name -> RunMergeInputs of the port: [pc, i, ip]
  running,           \* the workflow has started the processes (wiring is over)
  emitted,           \* port name -> the IPs its merger put on InChan (history)
  recvd,             \* port name -> the IPs its owner took with Recv (history)
  writes,            \* IPGen name -> the channel writes of its Send calls, in order (history)
  connOrder,         \* the subscribers in the order they were connected (history)
  \* ---- parameter ports (SpecParam) ----
  pp,                \* port name -> ParamPort: [Chan (0 is nil), connected]
  pchans,            \* string channel -> [buf, closed]
  feeding,           \* port name -> the goroutine of its ConnectStr: [pc, i: the
                     \*   string it sends next]
  exited,            \* os.Exit(1) was called
  got,               \* port name -> the strings taken from the port with Recv (history)
  \* ---- formatCommand (SpecFormat) ----
  fmtCmd,            \* the command pattern: a sequence of pieces of text
  fmtInTargets,      \* in-port name -> [path, doStream]; an absent name is a nil target
  fmtParams,         \* parameter name -> its value, a sequence of pieces
  fmtPrepend,        \* the prepend string of the process
  fmtResult,         \* what formatCommand returned; << >> before the call
  \* ---- the consumer of the streaming out-port "str" (SpecPipe) ----
  piped,             \* a consumer process is connected to the out-port "str"
  ctasks,            \* the IPs the consumer received, one task each, in order
  crun,              \* the consumer's Run: "range" (first loop), "wait", "done"
  cwait,             \* the task whose done signal the consumer's Run waits for
  ctpc,              \* consumer task -> where its goroutine is
  cfs,               \* the consumer's output files: path -> 0 (absent) or the
                     \*   consumer task whose command wrote the content
  csent,             \* the consumer tasks whose output IP was sent on, in order
  \* ---- createTasks of a process with several ports (SpecGather) ----
  gInPorts,          \* ShellProcess.InPorts: the names of the in-ports
  gParamPorts,       \* ShellProcess.ParamPorts: the names of the parameter ports
  gleft,             \* port name -> the items its channel delivers before it is closed
  gpc,               \* the goroutine of createTasks: "inputs" (in receiveInputs),
                     \*   "params" (in receiveParams), "send" (at ch <- t), "closed"
                     \*   (it has returned), "exit" (Check has ended the program)
  gtoRecv,           \* the ports the running range loop has still to visit
  gcur,              \* what the iteration has gathered: [inTargets, inPortsOpen,
                     \*   params, paramPortsOpen]
  gtasks,            \* the tasks handed to Run, in order: [inTargets, params, cmd]
  gtaken             \* the items taken from the channels, in order (history)

cfgVars == <<OutPortsDoStream, PathFormatters, InPorts, ShellParamPorts, nInputs>>

shellVars == <<OutPortsDoStream, PathFormatters, InPorts, ShellParamPorts, nInputs, fs,
               runNo, fatal, params, gathers,
               pc, tasks, cur, toSend, anyPreviousFifosExists, outChan, outClosed,
               sent, cpc, inLeft, created, tpc, atomLeft, atomCur, execs, doneSent,
               doneClosed, route, doneOrder>>

portVars == <<ports, chans, gen, merger, running, emitted, recvd, writes, connOrder>>

paramVars == <<pp, pchans, feeding, exited, got>>

formatVars == <<fmtCmd, fmtInTargets, fmtParams, fmtPrepend, fmtResult>>

pipeVars == <<piped, ctasks, crun, cwait, ctpc, cfs, csent>>

gatherVars == <<gInPorts, gParamPorts, gleft, gpc, gtoRecv, gcur, gtasks, gtaken>>

restVars == <<formatVars, pipeVars, gatherVars>>

vars == <<shellVars, portVars, paramVars, restVars>>

-----------------------------------------------------------------------------
\* ---- information packet (src/ip.go) ----

\* InformationPacket.GetPath
GetPath(path) == path

\* InformationPacket.GetTempPath
GetTempPath(path) == path \o ".tmp"

\* InformationPacket.GetFifoPath
GetFifoPath(path) == path \o ".fifo"

\* os.Stat(name) succeeds
Exists(name) == fs[name] # 0

\* InformationPacket.TempFileExists
TempFileExists(path) == Exists(GetTempPath(path))

-----------------------------------------------------------------------------
\* ---- shell process and shell task (src/unnamed/part_001) ----

TaskIds == 1..MaxTasks

\* The out-ports of the modelled process: "cmd {i:in} > {o:out} ... {o|os:str}".
OutPorts == {"out", "str"}

\* Path of the i-th IP the upstream sends.
InPath(i) == "f" \o ToString(i)

\* SetPathFormatterString / SetPathFormatterExtend, applied to task t
OutPath(t, o) ==
  IF PathFormatters[o] = "Static" THEN o ELSE InPath(t) \o "." \o o

AllPaths == OutPorts \cup {InPath(t) \o "." \o o : t \in TaskIds, o \in OutPorts}

AllFiles == {GetPath(p) : p \in AllPaths} \cup {GetTempPath(p) : p \in AllPaths}
            \cup {GetFifoPath(p) : p \in AllPaths}

\* The out-ports whose target of a task is streaming / is not
StreamPorts == {o \in OutPorts : OutPortsDoStream[o]}
NonStreamPorts == {o \in OutPorts : ~OutPortsDoStream[o]}

\* Faulty variants of anyOutputExists: one that looks at the final paths only,
\* one that finds nothing.
anyFinalOutputExists(t) ==
  \E o \in OutPorts :
     ~OutPortsDoStream[o] /\ fs[GetPath(OutPath(t, o))] # 0

noOutputExists(t) == FALSE

\* ShellTask.anyOutputExists
anyOutputExists(t) ==
  \E o \in NonStreamPorts :
     Exists(GetPath(OutPath(t, o))) \/ Exists(GetTempPath(OutPath(t, o)))

\* A faulty variant of anyFifosExist: only when every FIFO of the task exists.
allFifosExist(t) ==
  \A o \in StreamPorts : Exists(GetFifoPath(OutPath(t, o)))

\* ShellTask.anyFifosExist
anyFifosExist(t) ==
  \E o \in StreamPorts : Exists(GetFifoPath(OutPath(t, o)))

\* ShellTask.fifosInOutTargetsMissing
fifosInOutTargetsMissing(t) ==
  \E o \in StreamPorts : ~Exists(GetFifoPath(OutPath(t, o)))

\* A faulty variant of createFifos: no FIFO is made.
createNoFifos(t) == fs

\* ShellTask.createFifos with InformationPacket.CreateFifo: the disk after it
createFifos(t) ==
  [f \in AllFiles |->
     IF \E o \in StreamPorts : f = GetFifoPath(OutPath(t, o)) /\ ~Exists(f)
     THEN t ELSE fs[f]]

\* NewFileTarget(opath) with doStream copied from the port (NewShellTask);
\* task is the provenance of the packet: the task whose OutTargets holds it.
OutTarget(t, o) ==
  [path |-> OutPath(t, o), doStream |-> OutPortsDoStream[o], task |-> t]

\* A faulty variant of ShouldBreak: only the first of the three tests is made.
BreaksWhenBothClosed(nInPorts, nParamPorts, inPortsOpen, paramPortsOpen) ==
  ~inPortsOpen /\ ~paramPortsOpen

\* The termination tests of createTasks (lines 205-216)
ShouldBreak(nInPorts, nParamPorts, inPortsOpen, paramPortsOpen) ==
  \/ ~inPortsOpen /\ ~paramPortsOpen
  \/ nInPorts = 0 /\ ~paramPortsOpen
  \/ nParamPorts = 0 /\ ~inPortsOpen

\* A faulty variant of AfterHandOver: the goroutine always loops.
AlwaysLoops(nInPorts, nParamPorts) == "gather"

\* The position of the createTasks goroutine after `ch <- t`: the test of line 222
AfterHandOver(nInPorts, nParamPorts) ==
  IF nInPorts = 0 /\ nParamPorts = 0 THEN "closed" ELSE "gather"

\* A faulty variant of FirstLoopPorts: no IP is sent before the task is started.
NoPortsFirst == {}

\* A faulty variant of FirstLoopPorts: every IP of the task is sent at once.
AllPortsFirst == OutPorts

\* The out-ports Run serves in its first loop, before the task is started
FirstLoopPorts == StreamPorts

\* The out-ports Run serves in its second loop, after the task's done signal
SecondLoopPorts == NonStreamPorts

\* A faulty variant of WaitsFor: the second loop walks the tasks backwards.
WaitsForBackwards == IF cur \in 1..Len(tasks) THEN tasks[Len(tasks) + 1 - cur] ELSE 0

\* The task whose done signal the second loop of Run waits for
WaitsFor == IF cur \in 1..Len(tasks) THEN tasks[cur] ELSE 0

\* What the goroutine started for a task does first (lines 138-148)
Launched(anyPrevious) == IF ~anyPrevious THEN "execute" ELSE "senddone"

\* A faulty variant of AfterDoneSend: the goroutine ends without the deferred close.
WithoutDeferredClose == "finished"

\* The position of a task goroutine after its sentinel was received
AfterDoneSend == "closedone"

\* os.Rename(tmp, final): the disk after InformationPacket.Atomize's rename
Renamed(path) ==
  [f \in AllFiles |->
     IF f = GetPath(path) THEN fs[GetTempPath(path)]
     ELSE IF f = GetTempPath(path) THEN 0 ELSE fs[f]]

\* bash -c cmd: the command opens its {o:...} outputs at their temp paths
CommandWrites(t) ==
  [f \in AllFiles |->
     IF \E o \in NonStreamPorts : f = GetTempPath(OutPath(t, o)) THEN t ELSE fs[f]]

-----------------------------------------------------------------------------
\* Configurations and initial disks of the shell process.

\* A disk with nothing on it but the files of `present`, left by an earlier program.
Disk(present) == [f \in AllFiles |-> IF f \in present THEN -1 ELSE 0]

\* The files whose presence a task of the process looks at: the final and temp
\* file of a non-streaming output, the FIFO of a streaming output.
WatchedFiles ==
  UNION {IF OutPortsDoStream[o]
         THEN {GetFifoPath(OutPath(t, o))}
         ELSE {GetPath(OutPath(t, o)), GetTempPath(OutPath(t, o))}
         : t \in 1..(IF InPorts = {} THEN 1 ELSE nInputs), o \in OutPorts}

\* The disks the workflow can start on: an empty one, or one that holds a single
\* watched file (an output, a temp file or a FIFO that an earlier run left).
InitialDisks == {Disk({})} \cup {Disk({f}) : f \in WatchedFiles}

IdleTasks(v) == [t \in TaskIds |-> v]

RunStart ==
  /\ pc = "range"
  /\ tasks = << >>
  /\ cur = 0
  /\ toSend = {}
  /\ anyPreviousFifosExists = IdleTasks(FALSE)
  /\ outChan = [o \in OutPorts |-> << >>]
  /\ outClosed = [o \in OutPorts |-> 0]
  /\ sent = [o \in OutPorts |-> << >>]
  /\ cpc = "gather"
  /\ inLeft = nInputs
  /\ created = 0
  /\ params = IdleTasks("")
  /\ gathers = 0
  /\ tpc = IdleTasks("none")
  /\ atomLeft = IdleTasks({})
  /\ atomCur = IdleTasks("")
  /\ execs = IdleTasks(0)
  /\ doneSent = IdleTasks(0)
  /\ doneClosed = IdleTasks(0)
  /\ route = IdleTasks("none")
  /\ doneOrder = << >>

InitShell ==
  /\ OutPortsDoStream \in {[o \in OutPorts |-> FALSE], [o \in OutPorts |-> o = "str"],
                          [o \in OutPorts |-> TRUE]}
  /\ InPorts \in {{}, {"in"}}
  /\ ShellParamPorts = {}
  /\ PathFormatters \in [OutPorts -> {"Static", "Extend"}]
  /\ InPorts = {} => PathFormatters = [o \in OutPorts |-> "Static"]
  /\ nInputs \in 0..MaxTasks
  /\ InPorts = {} => nInputs = 0
  /\ InPorts # {} => nInputs = MaxTasks
  /\ fs \in InitialDisks
  /\ runNo = 1
  /\ fatal = FALSE
  /\ RunStart

-----------------------------------------------------------------------------
\* doneOrder after the goroutine of t has moved: t is appended when it has come
\* to its `t.Done <- 1`.
ComesToDone(t) ==
  doneOrder' = IF tpc'[t] = "senddone" /\ tpc[t] # "senddone"
               THEN Append(doneOrder, t) ELSE doneOrder

\* ---- the createTasks goroutine (lines 196-229) ----

\* The channel of the parameter port "p" of the process, and what one
\* `pval, open := <-pchan` of receiveParams (line 253) finds on it.
ParamChan == pp["p"].Chan
ParamArrived == ParamChan # 0 /\ pchans[ParamChan].buf # << >>
ParamClosed == ParamChan # 0 /\ pchans[ParamChan].buf = << >> /\ pchans[ParamChan].closed

\* The in-port "in" of the process is either fed by a file port of the same
\* name, or it delivers nInputs IPs and is then closed (inLeft are to come).
\* What one `inTarget, open := <-inPort` of receiveInputs (line 235) finds on it:
Wired == "in" \in DOMAIN ports
InArrived == IF Wired THEN chans[<<"InChan", "in", "in">>].buf # << >> ELSE inLeft > 0
InClosed ==
  IF Wired
  THEN chans[<<"InChan", "in", "in">>].buf = << >> /\ chans[<<"InChan", "in", "in">>].closed
  ELSE inLeft = 0

\* One iteration of the loop up to `ch <- t`: receiveInputs takes one IP from
\* every in-port or sees it closed, receiveParams takes one value from every
\* parameter port or sees it closed (with no port of a kind, that side counts
\* as open), then the termination tests, then NewShellTask.
Gather ==
  /\ ~fatal /\ cpc = "gather"
  /\ InPorts # {} => InArrived \/ InClosed
  /\ ShellParamPorts # {} => ParamArrived \/ ParamClosed
  /\ LET inPortsOpen == InPorts = {} \/ InArrived
         paramPortsOpen == ShellParamPorts = {} \/ ParamArrived
         takesIP == InPorts # {} /\ InArrived
     IN /\ inLeft' = IF takesIP /\ ~Wired THEN inLeft - 1 ELSE inLeft
        /\ chans' = IF takesIP /\ Wired
                     THEN [chans EXCEPT ![<<"InChan", "in", "in">>].buf = Tail(@)]
                     ELSE chans
        /\ recvd' = IF takesIP /\ Wired
                     THEN [recvd EXCEPT !["in"] = Append(@, Head(chans[<<"InChan", "in", "in">>].buf))]
                     ELSE recvd
        /\ pchans' = IF ShellParamPorts # {} /\ ParamArrived
                      THEN [pchans EXCEPT ![ParamChan].buf = Tail(@)]
                      ELSE pchans
        /\ gathers' = gathers + 1
        /\ IF ShouldBreak(Cardinality(InPorts), Cardinality(ShellParamPorts),
                          inPortsOpen, paramPortsOpen)
           THEN /\ cpc' = "closed"
                /\ UNCHANGED <<created, params>>
           ELSE /\ cpc' = "send"
                /\ created' = created + 1
                /\ params' = [params EXCEPT ![created + 1] =
                                IF ShellParamPorts # {} /\ ParamArrived
                                THEN Head(pchans[ParamChan].buf) ELSE ""]
  /\ UNCHANGED <<restVars, ports, gen, merger, running, emitted, writes, connOrder,
                 pp, feeding, exited, got, cfgVars, doneOrder, fs, runNo, fatal,
                 pc, tasks, cur, toSend, anyPreviousFifosExists, outChan, outClosed,
                 sent, tpc, atomLeft, atomCur, execs, doneSent, doneClosed, route>>

\* ---- ShellProcess.Run (lines 114-164) ----

\* `for t := range p.createTasks()` receives the task the goroutine offers on the
\* unbuffered channel; the goroutine loops, or breaks when the process has no port (line 222).
RecvTask ==
  /\ ~fatal /\ pc = "range" /\ cpc = "send"
  /\ tasks' = Append(tasks, created)
  /\ cur' = created
  /\ pc' = "fifos"
  /\ cpc' = AfterHandOver(Cardinality(InPorts), Cardinality(ShellParamPorts))
  /\ UNCHANGED <<restVars, portVars, paramVars, cfgVars, doneOrder, fs, runNo, fatal,
                 toSend, anyPreviousFifosExists, outChan, outClosed, sent, inLeft,
                 created, params, gathers, tpc, atomLeft, atomCur, execs, doneSent, doneClosed, route>>

\* The task of `cur` is started: `go t.Execute()` or the goroutine that only signals.
StartTask(t) ==
  /\ tpc' = [tpc EXCEPT ![t] = Launched(anyPreviousFifosExists'[t])]
  /\ route' = [route EXCEPT ![t] = IF anyPreviousFifosExists'[t] THEN "fifoExisted" ELSE @]
  /\ pc' = "range"

\* anyFifosExist and, if none exists, createFifos (lines 124-127); a task
\* without streaming outputs is started at once.
CheckFifos ==
  /\ ~fatal /\ pc = "fifos"
  /\ anyPreviousFifosExists' = [anyPreviousFifosExists EXCEPT ![cur] = anyFifosExist(cur)]
  /\ fs' = IF ~anyFifosExist(cur) THEN createFifos(cur) ELSE fs
  /\ toSend' = FirstLoopPorts
  /\ IF FirstLoopPorts = {}
     THEN StartTask(cur)
     ELSE pc' = "sendfifos" /\ UNCHANGED <<tpc, route>>
  /\ ComesToDone(cur)
  /\ UNCHANGED <<restVars, portVars, paramVars, cfgVars, runNo, fatal,
                 tasks, cur, outChan, outClosed, sent, cpc, inLeft, created, params, gathers,
                 atomLeft, atomCur, execs, doneSent, doneClosed>>

\* `p.OutPorts[oname] <- otgt` of the first loop (lines 131-136), in the order the
\* map iteration yields; after the last one the task is started (lines 138-148).
SendFifo(o) ==
  /\ ~fatal /\ pc = "sendfifos" /\ o \in toSend
  /\ Len(outChan[o]) < BUFSIZE
  /\ outChan' = [outChan EXCEPT ![o] = Append(@, OutTarget(cur, o))]
  /\ sent' = [sent EXCEPT ![o] = Append(@, OutTarget(cur, o))]
  /\ toSend' = toSend \ {o}
  /\ UNCHANGED anyPreviousFifosExists
  /\ IF toSend' = {}
     THEN StartTask(cur)
     ELSE UNCHANGED <<pc, tpc, route>>
  /\ ComesToDone(cur)
  /\ UNCHANGED <<restVars, portVars, paramVars, cfgVars, fs, runNo, fatal,
                 tasks, cur, outClosed, cpc, inLeft, created, params, gathers,
                 atomLeft, atomCur, execs, doneSent, doneClosed>>

\* The task channel is closed: Run leaves the first loop (line 149).
RangeEnd ==
  /\ ~fatal /\ pc = "range" /\ cpc = "closed"
  /\ pc' = "wait"
  /\ cur' = 1
  /\ UNCHANGED <<restVars, portVars, paramVars, cfgVars, doneOrder, fs, runNo, fatal,
                 tasks, toSend, anyPreviousFifosExists, outChan, outClosed, sent, cpc,
                 inLeft, created, params, gathers, tpc, atomLeft, atomCur, execs, doneSent, doneClosed,
                 route>>

\* `<-t.Done` (line 155) meets the `t.Done <- 1` of the task's goroutine.
WaitDone ==
  /\ ~fatal /\ pc = "wait" /\ WaitsFor # 0
  /\ tpc[WaitsFor] = "senddone"
  /\ doneSent' = [doneSent EXCEPT ![WaitsFor] = @ + 1]
  /\ tpc' = [tpc EXCEPT ![WaitsFor] = AfterDoneSend]
  /\ toSend' = SecondLoopPorts
  /\ IF SecondLoopPorts = {}
     THEN cur' = cur + 1 /\ pc' = "wait"
     ELSE cur' = cur /\ pc' = "sendout"
  /\ UNCHANGED <<restVars, portVars, paramVars, cfgVars, doneOrder, fs, runNo, fatal,
                 tasks, anyPreviousFifosExists, outChan, outClosed, sent, cpc, inLeft,
                 created, params, gathers, atomLeft, atomCur, execs, doneClosed, route>>

\* `p.OutPorts[oname] <- otgt` of the second loop (lines 157-162).
SendOut(o) ==
  /\ ~fatal /\ pc = "sendout" /\ o \in toSend
  /\ Len(outChan[o]) < BUFSIZE
  /\ outChan' = [outChan EXCEPT ![o] = Append(@, OutTarget(WaitsFor, o))]
  /\ sent' = [sent EXCEPT ![o] = Append(@, OutTarget(WaitsFor, o))]
  /\ toSend' = toSend \ {o}
  /\ IF toSend' = {}
     THEN cur' = cur + 1 /\ pc' = "wait"
     ELSE UNCHANGED <<cur, pc>>
  /\ UNCHANGED <<restVars, portVars, paramVars, cfgVars, doneOrder, fs, runNo, fatal,
                 tasks, anyPreviousFifosExists, outClosed, cpc, inLeft, created, params, gathers, tpc,
                 atomLeft, atomCur, execs, doneSent, doneClosed, route>>

\* A faulty variant of PortsToClose: the ports of the streaming outputs only.
StreamingPortsOnly == StreamPorts

\* The ports closeOutPorts ranges over (line 265): every out-port of the process.
PortsToClose == OutPorts

\* The second loop is over: the deferred closeOutPorts (lines 264-269), Run returns.
closeOutPorts ==
  /\ ~fatal /\ pc = "wait" /\ WaitsFor = 0
  /\ outClosed' = [o \in OutPorts |->
                      IF o \in PortsToClose THEN outClosed[o] + 1 ELSE outClosed[o]]
  /\ pc' = "done"
  /\ UNCHANGED <<restVars, portVars, paramVars, cfgVars, doneOrder, fs, runNo, fatal,
                 tasks, cur, toSend, anyPreviousFifosExists, outChan, sent, cpc,
                 inLeft, created, params, gathers, tpc, atomLeft, atomCur, execs, doneSent, doneClosed,
                 route>>

\* The process downstream of an out-port receives the next IP.
Downstream(o) ==
  /\ ~fatal /\ outChan[o] # << >>
  /\ ~(piped /\ o = "str")
  /\ outChan' = [outChan EXCEPT ![o] = Tail(@)]
  /\ UNCHANGED <<restVars, portVars, paramVars, cfgVars, doneOrder, fs, runNo, fatal,
                 pc, tasks, cur, toSend, anyPreviousFifosExists, outClosed, sent, cpc,
                 inLeft, created, params, gathers, tpc, atomLeft, atomCur, execs, doneSent, doneClosed,
                 route>>

\* ---- the task goroutines: ShellTask.Execute (lines 337-350) ----

\* The two tests of Execute (line 339): run the command, or go on to the signal.
Execute(t) ==
  /\ ~fatal /\ tpc[t] = "execute"
  /\ IF ~anyOutputExists(t) /\ ~fifosInOutTargetsMissing(t)
     THEN /\ tpc' = [tpc EXCEPT ![t] = "command"]
          /\ route' = [route EXCEPT ![t] = "executed"]
     ELSE /\ tpc' = [tpc EXCEPT ![t] = "senddone"]
          /\ route' = [route EXCEPT ![t] =
                         IF anyOutputExists(t) THEN "skipOutputExists"
                         ELSE "skipFifoMissing"]
  /\ ComesToDone(t)
  /\ UNCHANGED <<restVars, portVars, paramVars, cfgVars, fs, runNo, fatal,
                 pc, tasks, cur, toSend, anyPreviousFifosExists, outChan, outClosed,
                 sent, cpc, inLeft, created, params, gathers, atomLeft, atomCur, execs, doneSent,
                 doneClosed>>

\* executeCommand (lines 352-356): bash starts the command, which opens its outputs.
CommandStart(t) ==
  /\ ~fatal /\ tpc[t] = "command"
  /\ fs' = CommandWrites(t)
  /\ execs' = [execs EXCEPT ![t] = @ + 1]
  /\ tpc' = [tpc EXCEPT ![t] = "running"]
  /\ UNCHANGED <<restVars, portVars, paramVars, cfgVars, doneOrder, runNo, fatal,
                 pc, tasks, cur, toSend, anyPreviousFifosExists, outChan, outClosed,
                 sent, cpc, inLeft, created, params, gathers, atomLeft, atomCur, doneSent, doneClosed,
                 route>>

\* A command that writes to a FIFO cannot open it, and so cannot exit, before a
\* reader has the FIFO open: with a consumer connected to "str", a command of
\* the consumer is reading the FIFO of t.
ReaderOpened(t) ==
  (piped /\ OutPortsDoStream["str"]) =>
     \E k \in 1..Len(ctasks) :
        ctpc[k] = "reading" /\ GetFifoPath(ctasks[k].path) = GetFifoPath(OutPath(t, "str"))

\* The command exits with status 0: atomizeTargets (lines 426-436) begins.
CommandExit(t) ==
  /\ ~fatal /\ tpc[t] = "running"
  /\ ReaderOpened(t)
  /\ atomLeft' = [atomLeft EXCEPT ![t] = NonStreamPorts]
  /\ tpc' = [tpc EXCEPT ![t] = IF NonStreamPorts = {} THEN "senddone" ELSE "atomize"]
  /\ ComesToDone(t)
  /\ UNCHANGED <<restVars, portVars, paramVars, cfgVars, fs, runNo, fatal,
                 pc, tasks, cur, toSend, anyPreviousFifosExists, outChan, outClosed,
                 sent, cpc, inLeft, created, params, gathers, atomCur, execs, doneSent, doneClosed,
                 route>>

\* The command exits with an error: Check(err) ends the program (line 355).
CommandFail(t) ==
  /\ ~fatal /\ tpc[t] = "running"
  /\ fatal' = TRUE
  /\ UNCHANGED <<restVars, portVars, paramVars, cfgVars, doneOrder, fs, runNo,
                 pc, tasks, cur, toSend, anyPreviousFifosExists, outChan, outClosed,
                 sent, cpc, inLeft, created, params, gathers, tpc, atomLeft, atomCur, execs, doneSent,
                 doneClosed, route>>

\* atomizeTargets takes the next non-streaming target and calls its Atomize.
AtomizeBegin(t, o) ==
  /\ ~fatal /\ tpc[t] = "atomize" /\ o \in atomLeft[t]
  /\ atomCur' = [atomCur EXCEPT ![t] = o]
  /\ tpc' = [tpc EXCEPT ![t] = "tempcheck"]
  /\ UNCHANGED <<restVars, portVars, paramVars, cfgVars, doneOrder, fs, runNo, fatal,
                 pc, tasks, cur, toSend, anyPreviousFifosExists, outChan, outClosed,
                 sent, cpc, inLeft, created, params, gathers, atomLeft, execs, doneSent, doneClosed,
                 route>>

\* Atomize (src/ip.go lines 109-110): TempFileExists answers yes; while it
\* answers no the goroutine sleeps and asks again, which changes nothing.
AtomizeTempCheck(t) ==
  /\ ~fatal /\ tpc[t] = "tempcheck"
  /\ TempFileExists(OutPath(t, atomCur[t]))
  /\ tpc' = [tpc EXCEPT ![t] = "rename"]
  /\ UNCHANGED <<restVars, portVars, paramVars, cfgVars, doneOrder, fs, runNo, fatal,
                 pc, tasks, cur, toSend, anyPreviousFifosExists, outChan, outClosed,
                 sent, cpc, inLeft, created, params, gathers, atomLeft, atomCur, execs, doneSent,
                 doneClosed, route>>

\* Atomize (src/ip.go lines 111-115): os.Rename, and Check(err) if it fails
\* because the temp file is gone again.
AtomizeRename(t) ==
  /\ ~fatal /\ tpc[t] = "rename"
  /\ IF TempFileExists(OutPath(t, atomCur[t]))
     THEN /\ fs' = Renamed(OutPath(t, atomCur[t]))
          /\ atomLeft' = [atomLeft EXCEPT ![t] = @ \ {atomCur[t]}]
          /\ atomCur' = [atomCur EXCEPT ![t] = ""]
          /\ tpc' = [tpc EXCEPT ![t] =
                       IF atomLeft'[t] = {} THEN "senddone" ELSE "atomize"]
          /\ UNCHANGED fatal
     ELSE /\ fatal' = TRUE
          /\ UNCHANGED <<restVars, fs, atomLeft, atomCur, tpc>>
  /\ ComesToDone(t)
  /\ UNCHANGED <<restVars, portVars, paramVars, cfgVars, runNo,
                 pc, tasks, cur, toSend, anyPreviousFifosExists, outChan, outClosed,
                 sent, cpc, inLeft, created, params, gathers, execs, doneSent, doneClosed, route>>

\* The deferred close(t.Done) (lines 338 and 145).
CloseDone(t) ==
  /\ ~fatal /\ tpc[t] = "closedone"
  /\ doneClosed' = [doneClosed EXCEPT ![t] = @ + 1]
  /\ tpc' = [tpc EXCEPT ![t] = "finished"]
  /\ UNCHANGED <<restVars, portVars, paramVars, cfgVars, doneOrder, fs, runNo, fatal,
                 pc, tasks, cur, toSend, anyPreviousFifosExists, outChan, outClosed,
                 sent, cpc, inLeft, created, params, gathers, atomLeft, atomCur, execs, doneSent,
                 route>>

\* ---- the workflow is run again on the disk the first run left ----

Rerun ==
  /\ ~fatal /\ runNo = 1 /\ pc = "done"
  /\ \A t \in TaskIds : tpc[t] \in {"none", "finished"}
  /\ \A o \in OutPorts : outChan[o] = << >>
  /\ runNo' = 2
  /\ pc' = "range"
  /\ tasks' = << >>
  /\ cur' = 0
  /\ toSend' = {}
  /\ anyPreviousFifosExists' = IdleTasks(FALSE)
  /\ outChan' = [o \in OutPorts |-> << >>]
  /\ outClosed' = [o \in OutPorts |-> 0]
  /\ sent' = [o \in OutPorts |-> << >>]
  /\ cpc' = "gather"
  /\ inLeft' = nInputs
  /\ created' = 0
  /\ params' = IdleTasks("")
  /\ gathers' = 0
  /\ tpc' = IdleTasks("none")
  /\ atomLeft' = IdleTasks({})
  /\ atomCur' = IdleTasks("")
  /\ execs' = IdleTasks(0)
  /\ doneSent' = IdleTasks(0)
  /\ doneClosed' = IdleTasks(0)
  /\ route' = IdleTasks("none")
  /\ doneOrder' = << >>
  /\ UNCHANGED <<restVars, portVars, paramVars, cfgVars, fs, fatal>>

\* The steps of one run of the workflow.
RunSteps ==
  \/ Gather
  \/ RecvTask
  \/ CheckFifos
  \/ \E o \in OutPorts : SendFifo(o)
  \/ RangeEnd
  \/ WaitDone
  \/ \E o \in OutPorts : SendOut(o)
  \/ closeOutPorts
  \/ \E o \in OutPorts : Downstream(o)
  \/ \E t \in TaskIds : Execute(t)
  \/ \E t \in TaskIds : CommandStart(t)
  \/ \E t \in TaskIds : CommandExit(t)
  \/ \E t \in TaskIds : CommandFail(t)
  \/ \E t \in TaskIds, o \in OutPorts : AtomizeBegin(t, o)
  \/ \E t \in TaskIds : AtomizeTempCheck(t)
  \/ \E t \in TaskIds : AtomizeRename(t)
  \/ \E t \in TaskIds : CloseDone(t)

Next ==
  \/ RunSteps
  \/ Rerun

\* The idle values of the variables a specification does not move.
ShellIdle ==
  /\ OutPortsDoStream = [o \in OutPorts |-> FALSE]
  /\ PathFormatters = [o \in OutPorts |-> "Static"]
  /\ InPorts = {}
  /\ ShellParamPorts = {}
  /\ nInputs = 0
  /\ fs = Disk({})
  /\ runNo = 1
  /\ fatal = FALSE
  /\ RunStart

PortsIdle ==
  /\ ports = << >> /\ chans = << >> /\ gen = << >> /\ merger = << >>
  /\ running = FALSE
  /\ emitted = << >> /\ recvd = << >> /\ writes = << >> /\ connOrder = << >>

ParamIdle ==
  /\ pp = << >> /\ pchans = << >> /\ feeding = << >> /\ exited = FALSE /\ got = << >>

FormatIdle ==
  /\ fmtCmd = << >> /\ fmtInTargets = << >> /\ fmtParams = << >>
  /\ fmtPrepend = "" /\ fmtResult = << >>

\* The output path of a consumer task: the path of its input, extended.
ConsumerPath(ip) == ip.path \o ".c"

ConsumerFiles ==
  {ConsumerPath([path |-> q]) : q \in AllPaths}
    \cup {GetTempPath(ConsumerPath([path |-> q])) : q \in AllPaths}

ConsumerStart ==
  /\ ctasks = << >> /\ crun = "range" /\ cwait = 1
  /\ ctpc = IdleTasks("none")
  /\ cfs = [f \in ConsumerFiles |-> 0]
  /\ csent = << >>

PipeIdle == piped = FALSE /\ ConsumerStart

GatherIdle ==
  /\ gInPorts = {} /\ gParamPorts = {} /\ gleft = << >>
  /\ gpc = "closed" /\ gtoRecv = {} /\ gcur = << >>
  /\ gtasks = << >> /\ gtaken = << >>

RestIdle == FormatIdle /\ PipeIdle /\ GatherIdle

Init == InitShell /\ PortsIdle /\ ParamIdle /\ RestIdle

Spec == Init /\ [][Next]_vars

\* ---- SpecPeer: one run, with a peer that removes FIFOs ----

\* InformationPacket.RemoveFifo (src/ip.go lines 141-148), called by the component
\* that was sent the streaming IP of task t on port o and has taken it from the
\* channel: the FIFO is gone from the disk.
RemoveFifo(t, o) ==
  /\ ~fatal
  /\ OutPortsDoStream[o]
  /\ \E i \in 1..Len(sent[o]) : sent[o][i] = OutTarget(t, o)
  /\ \A i \in 1..Len(outChan[o]) : outChan[o][i] # OutTarget(t, o)
  /\ Exists(GetFifoPath(OutPath(t, o)))
  /\ fs' = [fs EXCEPT ![GetFifoPath(OutPath(t, o))] = 0]
  /\ UNCHANGED <<restVars, portVars, paramVars, cfgVars, doneOrder, runNo, fatal,
                 pc, tasks, cur, toSend, anyPreviousFifosExists, outChan, outClosed,
                 sent, cpc, inLeft, created, params, gathers, tpc, atomLeft, atomCur, execs, doneSent,
                 doneClosed, route>>

NextPeer ==
  \/ RunSteps
  \/ \E t \in TaskIds, o \in OutPorts : RemoveFifo(t, o)

\* A process with a streaming output is run on a disk without leftovers.
InitPeer ==
  /\ Init
  /\ \E o \in OutPorts : OutPortsDoStream[o]
  /\ fs = Disk({})

SpecPeer == InitPeer /\ [][NextPeer]_vars

\* ---- SpecNoPorts: one run of a process without in-ports and parameter ports ----

InitNoPorts ==
  /\ Init
  /\ InPorts = {}

\* Every goroutine that can take a step takes one in the end.
SpecNoPorts == InitNoPorts /\ [][RunSteps]_vars /\ WF_vars(RunSteps)

-----------------------------------------------------------------------------
\* ---- properties of the shell process, checked under Spec ----

\* The tasks Run has taken from the task channel, as a set.
Scheduled == {tasks[i] : i \in 1..Len(tasks)}

\* How many IPs of task t the port o has carried.
TimesSent(t, o) == Cardinality({i \in 1..Len(sent[o]) : sent[o][i].task = t})

\* The command of t has returned.
CommandFinished(t) ==
  /\ route[t] = "executed"
  /\ tpc[t] \in {"atomize", "tempcheck", "rename", "senddone", "closedone", "finished"}

\* Some step has just sent this IP on port o.
JustSent(o, ip) ==
  /\ Len(sent'[o]) = Len(sent[o]) + 1
  /\ ip = sent'[o][Len(sent'[o])]

\* C1: on every out-port the i-th IP sent comes from the i-th task the process
\* created, whatever the order in which the tasks finish.
C1_PortOrderIsCreationOrder ==
  \A o \in OutPorts : \A i \in 1..Len(sent[o]) :
     /\ i <= Len(tasks)
     /\ sent[o][i].task = tasks[i]
     /\ tasks[i] = i

\* C1 witness: task 2 came to its done signal before task 1, both ran their
\* command, and the non-streaming port has carried both their IPs.
C1_Witness ==
  /\ Len(doneOrder) >= 2 /\ doneOrder[1] = 2 /\ doneOrder[2] = 1
  /\ route[1] = "executed" /\ route[2] = "executed"
  /\ Len(sent["out"]) = 2

\* C2 (as claimed): whenever a non-streaming IP is sent on an out-port, its final
\* file exists and its temp file does not.
C2_FinalExistsWhenSent ==
  [][\A o \in OutPorts : \A t \in TaskIds :
        (JustSent(o, OutTarget(t, o)) /\ ~OutPortsDoStream[o])
        => (Exists(GetPath(OutPath(t, o))) /\ ~TempFileExists(OutPath(t, o)))]_vars

\* A non-streaming output of t is on disk at its final or at its temp path.
FindsOutput(t) ==
  \E o \in OutPorts :
     /\ ~OutPortsDoStream[o]
     /\ (fs[OutPath(t, o)] # 0 \/ fs[OutPath(t, o) \o ".tmp"] # 0)

\* C3: a task whose Execute finds one of its non-streaming outputs at the final
\* or the temp path goes straight to its done signal and never runs its command;
\* no IP of a task is sent twice on a port, and when Run has returned the task
\* has signalled done once and each of its IPs was sent once.
C3_SkipStillSignalsAndSends ==
  /\ [][\A t \in TaskIds :
          (tpc[t] = "execute" /\ tpc'[t] # "execute" /\ FindsOutput(t))
          => (tpc'[t] = "senddone" /\ execs'[t] = 0)]_vars
  /\ [](\A t \in TaskIds :
          route[t] = "skipOutputExists" =>
            /\ execs[t] = 0
            /\ \A o \in OutPorts : TimesSent(t, o) <= 1
            /\ pc = "done" => /\ doneSent[t] = 1
                              /\ \A o \in OutPorts : TimesSent(t, o) = 1)

\* C3 witness: Run has returned, and a task that found its temp file on disk
\* was skipped, with both its IPs sent.
C3_Witness ==
  /\ pc = "done"
  /\ \E t \in Scheduled :
        /\ route[t] = "skipOutputExists"
        /\ \A o \in OutPorts : TimesSent(t, o) = 1
        /\ \E o \in NonStreamPorts : TempFileExists(OutPath(t, o))

C10_StreamBeforeFileAfter ==
  /\ [][\A o \in OutPorts : \A t \in TaskIds :
          (JustSent(o, OutTarget(t, o)) /\ route'[t] \in {"none", "executed"}) =>
             IF OutPortsDoStream[o]
             THEN ~CommandFinished(t)
             ELSE CommandFinished(t) /\ o \notin atomLeft[t]
                  /\ tpc[t] \in {"closedone", "finished"}]_vars
  /\ [](\A t \in TaskIds : CommandFinished(t) =>
          \A o \in OutPorts : OutPortsDoStream[o] => TimesSent(t, o) = 1)

\* C10 witness: a task that ran its command has both a streaming and a
\* non-streaming IP on the ports.
C10_Witness ==
  \E t \in TaskIds :
     /\ route[t] = "executed"
     /\ TimesSent(t, "str") = 1 /\ OutPortsDoStream["str"]
     /\ TimesSent(t, "out") = 1 /\ ~OutPortsDoStream["out"]

-----------------------------------------------------------------------------
\* ---- file ports (src/unnamed/part_000) and IPGen (src/ip.go) ----

\* Bound: the IPs one generator sends.
MaxItems == 3

\* NewFilePort
NewFilePort == [inChans |-> << >>, outChans |-> << >>, connected |-> FALSE]

\* make(chan *InformationPacket, BUFSIZE)
NewChan == [buf |-> << >>, closed |-> FALSE]

\* The channel InChan of a port, and the two channels a Connect(local, remote) makes.
InChan(p) == <<"InChan", p, p>>
InBoundChan(local, remote) == <<"inBoundChan", local, remote>>
OutBoundChan(local, remote) == <<"outBoundChan", local, remote>>

\* FilePort.Connect: the ports after localPort.Connect(remotePort)
Connected(ps, local, remote) ==
  [ps EXCEPT
     ![local] = [inChans |-> Append(@.inChans, InBoundChan(local, remote)),
                 outChans |-> Append(@.outChans, OutBoundChan(local, remote)),
                 connected |-> TRUE],
     ![remote] = [inChans |-> Append(@.inChans, OutBoundChan(local, remote)),
                  outChans |-> Append(@.outChans, InBoundChan(local, remote)),
                  connected |-> TRUE]]

\* The channels that exist once the ports ps are wired.
ChannelsOf(ps) ==
  {InChan(p) : p \in DOMAIN ps}
    \cup UNION {{ps[p].inChans[i] : i \in 1..Len(ps[p].inChans)} : p \in DOMAIN ps}

\* A faulty variant of SendTargets: the outbound channels last to first.
SendTargetsBackwards(pt) ==
  [i \in 1..Len(pt.outChans) |-> pt.outChans[Len(pt.outChans) + 1 - i]]

\* The channels FilePort.Send writes to, in this order (the range of line 85)
SendTargets(pt) == pt.outChans

\* append(pt.inChans[:i], pt.inChans[i+1:]...) (line 60)
DeleteAt(s, i) == SubSeq(s, 1, i - 1) \o SubSeq(s, i + 1, Len(s))

\* A faulty variant of KeepMerging: the merger returns with one channel left.
MoreThanOneLeft(inChans) == Len(inChans) > 1

\* The loop test of RunMergeInputs (line 55)
KeepMerging(inChans) == Len(inChans) > 0

\* Where the merger reads next after it has deleted the channel at position i:
\* the break of line 61 ends the sweep, the next sweep starts at the first channel.
AfterDelete(i) == 1

\* A faulty variant of AfterEmit: every IP passed on ends the sweep.
BackToFirst(inChans, i) == 1

\* Where the merger reads next after it has passed on the IP of position i.
AfterEmit(inChans, i) == IF i + 1 > Len(inChans) THEN 1 ELSE i + 1

\* The i-th InformationPacket of generator g: NewInformationPacket(FilePaths[i]).
IP(g, i) == <<g, i>>

\* The port that reads a channel.
ReaderOf(c) == IF c[1] = "outBoundChan" THEN c[3] ELSE c[2]

\* ---- IPGen.Run (src/ip.go lines 278-283) ----

\* One channel write of FilePort.Send (line 87) for the IP the generator is
\* sending; after the last channel the generator turns to its next path.
GenSend(g) ==
  /\ running /\ ~gen[g].closed /\ gen[g].k < gen[g].paths
  /\ LET targets == SendTargets(ports[g])
         c == targets[gen[g].i]
         last == gen[g].i >= Len(targets)
     IN /\ targets # << >>
        /\ Len(chans[c].buf) < BUFSIZE
        /\ chans' = [chans EXCEPT ![c].buf = Append(@, IP(g, gen[g].k + 1))]
        /\ writes' = [writes EXCEPT ![g] = Append(@, [ip |-> IP(g, gen[g].k + 1), chan |-> c])]
        /\ gen' = [gen EXCEPT ![g].i = IF last THEN 1 ELSE @ + 1,
                              ![g].k = IF last THEN @ + 1 ELSE @]
  /\ UNCHANGED <<restVars, shellVars, paramVars, ports, merger, running, emitted, recvd, connOrder>>

\* FilePort.Send of a port without outbound channels: nothing is written.
GenSendNowhere(g) ==
  /\ running /\ ~gen[g].closed /\ gen[g].k < gen[g].paths
  /\ SendTargets(ports[g]) = << >>
  /\ gen' = [gen EXCEPT ![g].k = @ + 1]
  /\ UNCHANGED <<restVars, shellVars, paramVars, ports, chans, merger, running, emitted, recvd,
                 writes, connOrder>>

\* The deferred FilePort.Close (lines 95-100): every outbound channel is closed.
GenClose(g) ==
  /\ running /\ ~gen[g].closed /\ gen[g].k = gen[g].paths
  /\ chans' = [c \in DOMAIN chans |->
                 IF \E i \in 1..Len(ports[g].outChans) : ports[g].outChans[i] = c
                 THEN [chans[c] EXCEPT !.closed = TRUE] ELSE chans[c]]
  /\ gen' = [gen EXCEPT ![g].closed = TRUE]
  /\ UNCHANGED <<restVars, shellVars, paramVars, ports, merger, running, emitted, recvd, writes,
                 connOrder>>

\* ---- FilePort.RunMergeInputs (lines 53-66) ----

\* The state of the merger when it comes to the loop test with these inChans,
\* reading position i next: it goes on, or returns and closes InChan (line 54).
MergerAt(inChans, i) ==
  IF KeepMerging(inChans)
  THEN [pc |-> "recv", i |-> i, ip |-> << >>]
  ELSE [pc |-> "returned", i |-> 0, ip |-> << >>]

\* A faulty variant of CloseIfReturned: InChan is left open.
ReturnsWithoutClose(cs, p, m) == cs

\* The deferred close(pt.InChan) of line 54
CloseIfReturned(cs, p, m) ==
  IF m.pc = "returned" THEN [cs EXCEPT ![InChan(p)].closed = TRUE] ELSE cs

\* The owning process starts the merger of its port.
MergeStart(p) ==
  /\ running /\ merger[p].pc = "idle"
  /\ merger' = [merger EXCEPT ![p] = MergerAt(ports[p].inChans, 1)]
  /\ chans' = CloseIfReturned(chans, p, merger'[p])
  /\ UNCHANGED <<restVars, shellVars, paramVars, ports, gen, running, emitted, recvd, writes,
                 connOrder>>

\* `ip, ok := <-ich` (line 57): an IP arrives, or the channel is closed and
\* drained and is deleted from inChans (lines 58-62).
MergeRecv(p) ==
  /\ merger[p].pc = "recv"
  /\ LET i == merger[p].i
         c == ports[p].inChans[i]
     IN IF chans[c].buf # << >>
        THEN /\ merger' = [merger EXCEPT ![p] =
                             [pc |-> "emit", i |-> i, ip |-> Head(chans[c].buf)]]
             /\ chans' = [chans EXCEPT ![c].buf = Tail(@)]
             /\ UNCHANGED ports
        ELSE /\ chans[c].closed
             /\ ports' = [ports EXCEPT ![p].inChans = DeleteAt(@, i)]
             /\ merger' = [merger EXCEPT ![p] =
                             MergerAt(ports'[p].inChans, AfterDelete(i))]
             /\ chans' = CloseIfReturned(chans, p, merger'[p])
  /\ UNCHANGED <<restVars, shellVars, paramVars, gen, running, emitted, recvd, writes, connOrder>>

\* `pt.InChan <- ip` (line 63)
MergeEmit(p) ==
  /\ merger[p].pc = "emit"
  /\ Len(chans[InChan(p)].buf) < BUFSIZE
  /\ chans' = [chans EXCEPT ![InChan(p)].buf = Append(@, merger[p].ip)]
  /\ emitted' = [emitted EXCEPT ![p] = Append(@, merger[p].ip)]
  /\ merger' = [merger EXCEPT ![p] =
                  MergerAt(ports[p].inChans, AfterEmit(ports[p].inChans, merger[p].i))]
  /\ UNCHANGED <<restVars, shellVars, paramVars, ports, gen, running, recvd, writes, connOrder>>

\* FilePort.Recv (lines 91-93) by the process that owns the port
Recv(p) ==
  /\ merger[p].pc # "idle"
  /\ chans[InChan(p)].buf # << >>
  /\ recvd' = [recvd EXCEPT ![p] = Append(@, Head(chans[InChan(p)].buf))]
  /\ chans' = [chans EXCEPT ![InChan(p)].buf = Tail(@)]
  /\ UNCHANGED <<restVars, shellVars, paramVars, ports, gen, merger, running, emitted, writes,
                 connOrder>>

\* ---- SpecMerge: three generators feed one in-port ----

Upstreams == <<"A", "B", "C">>
UpstreamSet == {Upstreams[i] : i \in 1..Len(Upstreams)}

RECURSIVE WiredTo(_, _, _)
\* The ports after pt.Connect(Out of ups[1]), ..., pt.Connect(Out of ups[n])
WiredTo(ps, pt, ups) ==
  IF ups = << >> THEN ps
  ELSE WiredTo(Connected(ps, pt, Head(ups)), pt, Tail(ups))

InitMerge ==
  /\ ShellIdle /\ ParamIdle /\ RestIdle
  /\ ports = WiredTo([p \in UpstreamSet \cup {"pt"} |-> NewFilePort], "pt", Upstreams)
  /\ chans = [c \in ChannelsOf(ports) |-> NewChan]
  /\ \E n \in [UpstreamSet -> 0..MaxItems] :
        gen = [g \in UpstreamSet |-> [paths |-> n[g], k |-> 0, i |-> 1, closed |-> FALSE]]
  /\ merger = [p \in {"pt"} |-> [pc |-> "idle", i |-> 0, ip |-> << >>]]
  /\ running = TRUE
  /\ emitted = [p \in {"pt"} |-> << >>]
  /\ recvd = [p \in {"pt"} |-> << >>]
  /\ writes = [g \in UpstreamSet |-> << >>]
  /\ connOrder = << >>

NextMerge ==
  \/ \E g \in UpstreamSet : GenSend(g)
  \/ \E g \in UpstreamSet : GenClose(g)
  \/ MergeStart("pt")
  \/ MergeRecv("pt")
  \/ MergeEmit("pt")
  \/ Recv("pt")

SpecMerge == InitMerge /\ [][NextMerge]_vars

\* ---- properties of the merger, checked under SpecMerge ----

\* The IPs of a sequence, as a set.
Range(s) == {s[i] : i \in 1..Len(s)}

RECURSIVE SumPaths(_)
\* The number of IPs the generators of G send in all.
SumPaths(G) ==
  IF G = {} THEN 0
  ELSE LET g == CHOOSE x \in G : TRUE IN gen[g].paths + SumPaths(G \ {g})

\* The IPs of generator g in a sequence of IPs, in their order there.
FromUpstream(s, g) == SelectSeq(s, LAMBDA ip : ip[1] = g)

\* C6: the merger closes InChan only when every inbound channel is closed and
\* drained (all of them deleted from inChans), and it has then passed on every
\* IP sent on the inbound channels, each once; before that it has passed on no IP
\* twice and none that was not sent.
C6_MergerLosesNothing ==
  /\ Cardinality(Range(emitted["pt"])) = Len(emitted["pt"])
  /\ \A ip \in Range(emitted["pt"]) :
        \E g \in UpstreamSet : \E i \in 1..Len(writes[g]) : writes[g][i].ip = ip
  /\ chans[InChan("pt")].closed =>
       /\ ports["pt"].inChans = << >>
       /\ \A g \in UpstreamSet :
             /\ gen[g].closed /\ gen[g].k = gen[g].paths
             /\ chans[InBoundChan("pt", g)].closed
             /\ chans[InBoundChan("pt", g)].buf = << >>
       /\ Len(emitted["pt"]) = SumPaths(UpstreamSet)
       /\ Range(emitted["pt"]) = {IP(g, i) : g \in UpstreamSet, i \in 1..MaxItems}
                                   \cap {ip \in UpstreamSet \X (1..MaxItems) :
                                           ip[2] <= gen[ip[1]].paths}

\* C6 witness: InChan is closed after every generator sent at least two IPs.
C6_Witness ==
  /\ chans[InChan("pt")].closed
  /\ \A g \in UpstreamSet : gen[g].paths >= 2
  /\ Len(emitted["pt"]) = SumPaths(UpstreamSet)

RECURSIVE RoundRobin(_, _, _)
\* One IP per unfinished upstream per round, in registration order: round r and
\* the rounds after it, position i of ups next.
RoundRobin(ups, r, i) ==
  IF \A j \in 1..Len(ups) : gen[ups[j]].paths < r THEN << >>
  ELSE IF i > Len(ups) THEN RoundRobin(ups, r + 1, 1)
  ELSE IF gen[ups[i]].paths >= r
       THEN <<IP(ups[i], r)>> \o RoundRobin(ups, r, i + 1)
       ELSE RoundRobin(ups, r, i + 1)

\* C7 (as claimed): the merged stream is one IP per live inbound channel per
\* round, in registration order, closed channels dropped.
C7_RoundRobinPerRound ==
  chans[InChan("pt")].closed => emitted["pt"] = RoundRobin(Upstreams, 1, 1)

RECURSIVE RestartingSweeps(_, _, _)
\* The sweeps of the merger over the upstreams ups, position i next, when taken[g]
\* IPs of g were passed on: a sweep passes on one IP per upstream until it meets
\* an upstream that has ended, drops that one and starts over at the first.
RestartingSweeps(ups, i, taken) ==
  IF ups = << >> THEN << >>
  ELSE IF i > Len(ups) THEN RestartingSweeps(ups, 1, taken)
  ELSE IF taken[ups[i]] < gen[ups[i]].paths
       THEN <<IP(ups[i], taken[ups[i]] + 1)>>
              \o RestartingSweeps(ups, i + 1, [taken EXCEPT ![ups[i]] = @ + 1])
       ELSE RestartingSweeps(SelectSeq(ups, LAMBDA u : u # ups[i]), 1, taken)

IsPrefix(s, t) == Len(s) <= Len(t) /\ s = SubSeq(t, 1, Len(s))

\* C7 (amended): the merger passes on the IPs in sweeps over the inbound channels
\* in registration order, one IP per channel, and a sweep that meets a closed
\* channel drops it and starts over at the first channel; the IPs of each
\* upstream keep their order, and two producers of two IPs each alternate.
C7_SweepsRestartAfterDrop ==
  /\ IsPrefix(emitted["pt"], RestartingSweeps(Upstreams, 1, [g \in UpstreamSet |-> 0]))
  /\ chans[InChan("pt")].closed =>
       emitted["pt"] = RestartingSweeps(Upstreams, 1, [g \in UpstreamSet |-> 0])
  /\ \A g \in UpstreamSet :
        FromUpstream(emitted["pt"], g)
          = [i \in 1..Len(FromUpstream(emitted["pt"], g)) |-> IP(g, i)]
  /\ (/\ chans[InChan("pt")].closed
      /\ gen["A"].paths = 2 /\ gen["B"].paths = 2 /\ gen["C"].paths = 0)
       => emitted["pt"] = <<IP("A", 1), IP("B", 1), IP("A", 2), IP("B", 2)>>

\* C7 witness: with 3, 1 and 2 IPs the second sweep ends at the closed channel of
\* B and A is served again before C.
C7_Witness ==
  /\ chans[InChan("pt")].closed
  /\ emitted["pt"] = <<IP("A", 1), IP("B", 1), IP("C", 1), IP("A", 2), IP("A", 3),
                       IP("C", 2)>>

-----------------------------------------------------------------------------
\* ---- SpecSend: one out-port with several subscribers ----

\* The in-ports that subscribe to the out-port "up" of a generator.
Subscribers == {"s1", "s2"}

\* localPort.Connect(remotePort) (lines 36-49) while the network is wired: the
\* two channels are made and registered with both ports.  A subscriber is
\* connected once, from either side.
Connect(local, remote) ==
  /\ ~running
  /\ local # remote
  /\ "up" \in {local, remote}
  /\ \E s \in {local, remote} \ {"up"} : ~ports[s].connected
  /\ ports' = Connected(ports, local, remote)
  /\ chans' = [c \in DOMAIN chans \cup {InBoundChan(local, remote),
                                        OutBoundChan(local, remote)} |->
                 IF c \in DOMAIN chans THEN chans[c] ELSE NewChan]
  /\ connOrder' = Append(connOrder, [local |-> local, remote |-> remote])
  /\ UNCHANGED <<restVars, shellVars, paramVars, gen, merger, running, emitted, recvd, writes>>

\* The workflow is run: the generator and the mergers of the in-ports start.
RunWorkflow ==
  /\ ~running
  /\ running' = TRUE
  /\ UNCHANGED <<restVars, shellVars, paramVars, ports, chans, gen, merger, emitted, recvd,
                 writes, connOrder>>

InitSend ==
  /\ ShellIdle /\ ParamIdle /\ RestIdle
  /\ ports = [p \in Subscribers \cup {"up"} |-> NewFilePort]
  /\ chans = [c \in {InChan(p) : p \in Subscribers \cup {"up"}} |-> NewChan]
  /\ \E n \in 0..MaxItems :
        gen = [g \in {"up"} |-> [paths |-> n, k |-> 0, i |-> 1, closed |-> FALSE]]
  /\ merger = [p \in Subscribers |-> [pc |-> "idle", i |-> 0, ip |-> << >>]]
  /\ running = FALSE
  /\ emitted = [p \in Subscribers |-> << >>]
  /\ recvd = [p \in Subscribers |-> << >>]
  /\ writes = [g \in {"up"} |-> << >>]
  /\ connOrder = << >>

NextSend ==
  \/ \E local, remote \in Subscribers \cup {"up"} : Connect(local, remote)
  \/ RunWorkflow
  \/ GenSend("up")
  \/ GenSendNowhere("up")
  \/ GenClose("up")
  \/ \E s \in Subscribers : MergeStart(s)
  \/ \E s \in Subscribers : MergeRecv(s)
  \/ \E s \in Subscribers : MergeEmit(s)
  \/ \E s \in Subscribers : Recv(s)

SpecSend == InitSend /\ [][NextSend]_vars

\* ---- properties of Send, checked under SpecSend ----

\* The subscriber of the j-th Connect, and the channel that Connect made for the
\* IPs of "up".
SubscriberOf(j) ==
  IF connOrder[j].local = "up" THEN connOrder[j].remote ELSE connOrder[j].local

ChanToSubscriber(j) ==
  IF connOrder[j].local = "up"
  THEN OutBoundChan("up", connOrder[j].remote)
  ELSE InBoundChan(connOrder[j].local, "up")

\* The first n IPs of the generator, in send order.
SentIPs(n) == [k \in 1..n |-> IP("up", k)]

\* C8: every subscriber receives the IPs a port has sent each once and in send
\* order, all of them by the time its merged channel is closed and empty, and
\* the port writes each IP to the subscribers' channels in the order in which
\* the subscribers were connected.
C8_SendReachesEverySubscriber ==
  /\ \A j \in 1..Len(connOrder) :
        LET s == SubscriberOf(j)
        IN /\ IsPrefix(recvd[s], SentIPs(gen["up"].paths))
           /\ Len(recvd[s]) <= gen["up"].k + 1
           /\ (chans[InChan(s)].closed /\ chans[InChan(s)].buf = << >>)
                => recvd[s] = SentIPs(gen["up"].paths)
  /\ \A w \in 1..Len(writes["up"]) :
        LET n == Len(connOrder)
            j == ((w - 1) % n) + 1
            k == ((w - 1) \div n) + 1
        IN /\ n > 0
           /\ writes["up"][w] = [ip |-> IP("up", k), chan |-> ChanToSubscriber(j)]
  /\ gen["up"].closed => Len(writes["up"]) = gen["up"].paths * Len(connOrder)

\* C8 witness: two subscribers, connected from different sides, have each
\* received the three IPs that were sent.
C8_Witness ==
  /\ Len(connOrder) = 2
  /\ connOrder[1].local = "up" /\ connOrder[2].remote = "up"
  /\ gen["up"].paths >= 3 /\ gen["up"].closed
  /\ \A s \in Subscribers :
        chans[InChan(s)].closed /\ recvd[s] = SentIPs(gen["up"].paths)

-----------------------------------------------------------------------------
\* ---- parameter ports (src/unnamed/part_000 lines 103-161) ----

\* The channels one run may make.
MaxChans == 3

\* The parameter ports of the network, and the strings ConnectStr is called with.
ParamPorts == {"p", "q", "r"}
Strings == <<"a", "b">>

\* The nil channel; the channels made are numbered from 1.
Nil == 0

\* NewParamPort
NewParamPort == [Chan |-> Nil, connected |-> FALSE]

\* The first test of ParamPort.Connect (line 113)
BothInitialized(localChan, otherChan) == localChan # Nil /\ otherChan # Nil

\* A faulty variant of ChanAfterConnect: the channel of the local port is not
\* handed to the other port.
LocalChanNotShared(localChan, otherChan, ch) ==
  IF localChan # Nil /\ otherChan = Nil THEN [local |-> localChan, other |-> Nil]
  ELSE IF otherChan # Nil /\ localChan = Nil THEN [local |-> otherChan, other |-> otherChan]
  ELSE IF localChan = Nil /\ otherChan = Nil THEN [local |-> ch, other |-> ch]
  ELSE [local |-> localChan, other |-> otherChan]

\* The channel the ports hold after pp.Connect(otherParamPort) when the call
\* returns: the chain of tests of lines 116-126, ch the channel of line 124.
ChanAfterConnect(localChan, otherChan, ch) ==
  IF localChan # Nil /\ otherChan = Nil THEN [local |-> localChan, other |-> localChan]
  ELSE IF otherChan # Nil /\ localChan = Nil THEN [local |-> otherChan, other |-> otherChan]
  ELSE IF localChan = Nil /\ otherChan = Nil THEN [local |-> ch, other |-> ch]
  ELSE [local |-> localChan, other |-> otherChan]

\* ParamPort.Connect (lines 112-130)
ParamPortConnect(local, other) ==
  /\ ~exited
  /\ local # other
  /\ LET localChan == pp[local].Chan
         otherChan == pp[other].Chan
         makes == localChan = Nil /\ otherChan = Nil
         after == ChanAfterConnect(localChan, otherChan, Len(pchans) + 1)
     IN IF BothInitialized(localChan, otherChan)
        THEN /\ exited' = TRUE
             /\ UNCHANGED <<pp, pchans>>
        ELSE /\ makes => Len(pchans) < MaxChans
             /\ pchans' = IF makes THEN Append(pchans, NewChan) ELSE pchans
             /\ pp' = [pp EXCEPT ![local] = [Chan |-> after.local, connected |-> TRUE],
                                 ![other] = [Chan |-> after.other, connected |-> TRUE]]
             /\ UNCHANGED exited
  /\ UNCHANGED <<restVars, shellVars, portVars, feeding, got>>

\* ParamPort.ConnectStr (lines 132-141): a new channel, and a goroutine that
\* will send the strings.  It is called at most once on a port.
ConnectStr(p) ==
  /\ ~exited
  /\ feeding[p].pc = "none"
  /\ Len(pchans) < MaxChans
  /\ pchans' = Append(pchans, NewChan)
  /\ pp' = [pp EXCEPT ![p] = [Chan |-> Len(pchans) + 1, connected |-> TRUE]]
  /\ feeding' = [feeding EXCEPT ![p] = [pc |-> "send", i |-> 1]]
  /\ UNCHANGED <<restVars, shellVars, portVars, exited, got>>

\* `pp.Chan <- str` in the goroutine of ConnectStr (line 138)
Feed(p) ==
  /\ ~exited
  /\ feeding[p].pc = "send" /\ feeding[p].i <= Len(Strings)
  /\ LET c == pp[p].Chan
     IN /\ Len(pchans[c].buf) < BUFSIZE
        /\ pchans' = [pchans EXCEPT ![c].buf = Append(@, Strings[feeding[p].i])]
  /\ feeding' = [feeding EXCEPT ![p].i = @ + 1]
  /\ UNCHANGED <<restVars, shellVars, portVars, pp, exited, got>>

\* The deferred pp.Close() of the goroutine (lines 136, 159-161)
FeedClose(p) ==
  /\ ~exited
  /\ feeding[p].pc = "send" /\ feeding[p].i > Len(Strings)
  /\ pchans' = [pchans EXCEPT ![pp[p].Chan].closed = TRUE]
  /\ feeding' = [feeding EXCEPT ![p].pc = "closed"]
  /\ UNCHANGED <<restVars, shellVars, portVars, pp, exited, got>>

\* ParamPort.Recv (lines 155-157) of a value that is there
ParamRecv(p) ==
  /\ ~exited
  /\ pp[p].Chan # Nil
  /\ pchans[pp[p].Chan].buf # << >>
  /\ got' = [got EXCEPT ![p] = Append(@, Head(pchans[pp[p].Chan].buf))]
  /\ pchans' = [pchans EXCEPT ![pp[p].Chan].buf = Tail(@)]
  /\ UNCHANGED <<restVars, shellVars, portVars, pp, feeding, exited>>

InitParam ==
  /\ ShellIdle /\ PortsIdle /\ RestIdle
  /\ pp = [p \in ParamPorts |-> NewParamPort]
  /\ pchans = << >>
  /\ feeding = [p \in ParamPorts |-> [pc |-> "none", i |-> 0]]
  /\ exited = FALSE
  /\ got = [p \in ParamPorts |-> << >>]

NextParam ==
  \/ \E local, other \in ParamPorts : ParamPortConnect(local, other)
  \/ \E p \in ParamPorts : ConnectStr(p)
  \/ \E p \in ParamPorts : Feed(p)
  \/ \E p \in ParamPorts : FeedClose(p)
  \/ \E p \in ParamPorts : ParamRecv(p)

SpecParam == InitParam /\ [][NextParam]_vars

\* ---- properties of the parameter ports, checked under SpecParam ----

\* What a Connect of local and other has to bring about.
ConnectedAsSpecified(local, other) ==
  IF pp[local].Chan # Nil /\ pp[other].Chan # Nil
  THEN /\ exited'
       /\ pp'[local].Chan = pp[local].Chan
       /\ pp'[other].Chan = pp[other].Chan
  ELSE /\ ~exited'
       /\ pp'[local].Chan = pp'[other].Chan
       /\ pp'[local].connected /\ pp'[other].connected
       /\ pp'[local].Chan \in 1..Len(pchans')
       /\ IF pp[local].Chan # Nil THEN pp'[local].Chan = pp[local].Chan /\ pchans' = pchans
          ELSE IF pp[other].Chan # Nil
               THEN pp'[local].Chan = pp[other].Chan /\ pchans' = pchans
               ELSE /\ pp'[local].Chan = Len(pchans) + 1
                    /\ pchans' = Append(pchans, NewChan)

\* C9: a Connect of two parameter ports of which at most one holds a channel
\* leaves both holding the same channel, the one that was held or else one new
\* channel, and both marked connected; a Connect of two ports that both hold a
\* channel ends the program and changes the channel of neither.
C9_ConnectSharesOneChannel ==
  [][\A local, other \in ParamPorts :
       ParamPortConnect(local, other) => ConnectedAsSpecified(local, other)]_vars

\* C9 witness: the program was ended by a Connect of two ports that held
\* different channels, after a Connect had made one channel for two ports.
C9_Witness ==
  /\ exited
  /\ \E a, b, c \in ParamPorts :
        /\ a # b /\ b # c /\ a # c
        /\ pp[a].Chan # Nil /\ pp[a].Chan = pp[b].Chan
        /\ pp[c].Chan # Nil /\ pp[c].Chan # pp[a].Chan
        /\ feeding[c].pc # "none" /\ feeding[a].pc = "none" /\ feeding[b].pc = "none"

-----------------------------------------------------------------------------
\* ---- properties of createTasks ----

\* C14: a process without in-ports and parameter ports makes one gather
\* iteration and one task, its createTasks goroutine ends when Run has taken the
\* task, and Run comes to its end unless a command fails.
C14_NoPortsOneTask ==
  /\ [](/\ gathers <= 1 /\ created = gathers
        /\ Len(tasks) <= 1
        /\ cpc = "closed" <=> Len(tasks) = 1
        /\ pc \in {"wait", "sendout", "done"} => tasks = <<1>>)
  /\ <>(cpc = "closed" /\ gathers = 1 /\ created = 1)
  /\ <>(pc = "done" \/ fatal)

\* C14 witness: Run has returned with one task, which ran its command.
C14_Witness ==
  /\ InPorts = {} /\ ShellParamPorts = {}
  /\ pc = "done" /\ tasks = <<1>> /\ gathers = 1 /\ route[1] = "executed"

\* C15: in a process with in-ports only, the gather iteration that finds the
\* in-port closed creates no task and ends the createTasks goroutine, every
\* other iteration creates one task, and the goroutine ends in no other way.
C15_InPortsClosedEndsGather ==
  /\ [][(InPorts # {} /\ ShellParamPorts = {} /\ gathers' = gathers + 1) =>
          IF inLeft = 0
          THEN cpc' = "closed" /\ created' = created
          ELSE cpc' = "send" /\ created' = created + 1 /\ inLeft' = inLeft - 1]_vars
  /\ []((InPorts # {} /\ ShellParamPorts = {} /\ cpc = "closed") =>
          (inLeft = 0 /\ created = nInputs /\ gathers = nInputs + 1))

\* C15 witness: the goroutine has ended after it created a task for every IP.
C15_Witness ==
  /\ InPorts # {} /\ ShellParamPorts = {}
  /\ cpc = "closed" /\ created = MaxTasks /\ gathers = MaxTasks + 1 /\ pc = "done"

\* C17 (as claimed): when Run of a process with a streaming output has returned,
\* no FIFO that the run created for a streaming output is left on the disk.
C17_FifosRemovedAtEnd ==
  pc = "done" =>
    \A t \in Scheduled : \A o \in StreamPorts : fs[GetFifoPath(OutPath(t, o))] <= 0

-----------------------------------------------------------------------------
\* ---- SpecSweep: a process whose only port is a parameter port fed by ConnectStr ----

\* The process has the parameter port "p" and no in-port, so every task has the
\* static output paths; it is run on an empty disk.
InitSweep ==
  /\ OutPortsDoStream \in {[o \in OutPorts |-> FALSE], [o \in OutPorts |-> o = "str"],
                          [o \in OutPorts |-> TRUE]}
  /\ PathFormatters = [o \in OutPorts |-> "Static"]
  /\ InPorts = {}
  /\ ShellParamPorts = {"p"}
  /\ nInputs = 0
  /\ fs = Disk({})
  /\ runNo = 1
  /\ fatal = FALSE
  /\ RunStart
  /\ PortsIdle /\ RestIdle
  /\ pp = [p \in ParamPorts |-> NewParamPort]
  /\ pchans = << >>
  /\ feeding = [p \in ParamPorts |-> [pc |-> "none", i |-> 0]]
  /\ exited = FALSE
  /\ got = [p \in ParamPorts |-> << >>]

NextSweep ==
  \/ RunSteps
  \/ ConnectStr("p")
  \/ Feed("p")
  \/ FeedClose("p")

\* Every goroutine and every command that can take a step takes one in the end.
SpecSweep == InitSweep /\ [][NextSweep]_vars /\ WF_vars(NextSweep)

\* ---- properties of the parameter sweep, checked under SpecSweep ----

\* The program was ended by a command that failed, not by a failed rename.
CommandFailed ==
  /\ fatal
  /\ \A t \in TaskIds : tpc[t] = "rename" => TempFileExists(OutPath(t, atomCur[t]))

\* Every port has carried one IP for each of the n values, and the process
\* downstream has taken them all.
AllObserved(n) ==
  \A o \in OutPorts :
     /\ Len(sent[o]) = n
     /\ \A i \in 1..n : sent[o][i].task = i
     /\ outChan[o] = << >>

\* C16 (as claimed): the sweep creates one task per value, in the order of the
\* values, and no more; unless a command fails, createTasks ends and the IPs of
\* all tasks are observed downstream, although the tasks share their output paths.
C16_SweepSendsEveryIP ==
  /\ [](/\ created <= Len(Strings)
        /\ \A t \in 1..created : params[t] = Strings[t]
        /\ cpc = "closed" => created = Len(Strings))
  /\ <>(CommandFailed \/ (cpc = "closed" /\ pc = "done" /\ AllObserved(Len(Strings))))

\* C19 (as claimed): when the sweep is over and its tasks wrote the same static
\* path of a non-streaming output, the final file there is the one that the
\* command of the last task created wrote.
C19_LastTaskWins ==
  (pc = "done" /\ created = Len(Strings) /\ StreamPorts = {}) =>
     \A o \in NonStreamPorts :
        /\ fs[GetPath(OutPath(created, o))] = created
        /\ params[fs[GetPath(OutPath(created, o))]] = Strings[Len(Strings)]

\* C20 (as claimed): every task that Run has taken from the task channel delivers
\* its done signal in the end, unless a command fails.
C20_EveryTaskSignalsDone ==
  \A t \in TaskIds :
     (t \in Scheduled) ~> (doneSent[t] = 1 \/ CommandFailed)

-----------------------------------------------------------------------------
\* ---- SpecFormat: formatCommand (src/unnamed/part_001) ----

\* A string is a sequence of pieces: a piece is either text without a placeholder
\* (typ "lit", name is the text) or the text of one placeholder {typ:name}.
MaxCmdLen == 3

Lit(text) == [typ |-> "lit", name |-> text]

PlaceHolder(typ, name) == [typ |-> typ, name |-> name]

\* A faulty variant of IsPlaceHolder: the expression without the kind "is".
IsKnownPlaceHolder(piece) == piece.typ \in {"o", "os", "i", "p"}

\* getPlaceHolderRegex: what the expression matches
IsPlaceHolder(piece) == piece.typ \in {"o", "os", "i", "is", "p"}

\* Check(err): the program ends
Failed == <<[typ |-> "exit", name |-> "Check"]>>

\* The out-targets of the task: every out-port of the pattern has one.
fmtOutTargets ==
  [o \in OutPorts |-> [path |-> "f1." \o o, doStream |-> o = "str"]]

\* strings.Replace(s, old, new, -1) for a placeholder old
RECURSIVE Replace(_, _, _)
Replace(s, old, new) ==
  IF s = << >> THEN << >>
  ELSE (IF Head(s) = old THEN new ELSE <<Head(s)>>) \o Replace(Tail(s), old, new)

\* A faulty variant of InPathFor: the final path also for a streaming target.
AlwaysFinalPath(target) == GetPath(target.path)

\* the branch typ == "i" of formatCommand, for a target with a path
InPathFor(target) ==
  IF target.doStream THEN GetFifoPath(target.path) ELSE GetPath(target.path)

\* newstr of one match; << >> is the empty string, on which Check ends the program
NewStr(m, inTargets, outTargets, pars) ==
  IF m.typ \in {"o", "os"}
  THEN IF m.name \notin DOMAIN outTargets THEN << >>
       ELSE IF m.typ = "o" THEN <<Lit(GetTempPath(outTargets[m.name].path))>>
            ELSE <<Lit(GetFifoPath(outTargets[m.name].path))>>
  ELSE IF m.typ = "i"
  THEN IF m.name \notin DOMAIN inTargets THEN << >>
       ELSE IF inTargets[m.name].path = "" THEN << >>
            ELSE <<Lit(InPathFor(inTargets[m.name]))>>
  ELSE IF m.typ = "p"
  THEN IF m.name \notin DOMAIN pars THEN << >> ELSE pars[m.name]
  ELSE << >>

\* A loop over the matches that leaves a placeholder without binding in place.
RECURSIVE ReplaceWhereBound(_, _, _, _, _)
ReplaceWhereBound(cmd, ms, inTargets, outTargets, pars) ==
  IF ms = << >> THEN cmd
  ELSE LET newstr == NewStr(Head(ms), inTargets, outTargets, pars)
       IN ReplaceWhereBound(IF newstr = << >> THEN cmd ELSE Replace(cmd, Head(ms), newstr),
                            Tail(ms), inTargets, outTargets, pars)

\* the loop over the matches ms, which were found in the pattern before the loop
RECURSIVE ReplaceMatches(_, _, _, _, _)
ReplaceMatches(cmd, ms, inTargets, outTargets, pars) ==
  IF ms = << >> THEN cmd
  ELSE LET newstr == NewStr(Head(ms), inTargets, outTargets, pars)
       IN IF newstr = << >> THEN Failed
          ELSE ReplaceMatches(Replace(cmd, Head(ms), newstr), Tail(ms),
                              inTargets, outTargets, pars)

\* fmt.Sprintf("%s %s", prepend, cmd) when prepend is not empty
WithPrepend(prepend, cmd) ==
  IF prepend # "" THEN <<Lit(prepend), Lit(" ")>> \o cmd ELSE cmd

formatCommand(cmd, inTargets, outTargets, pars, prepend) ==
  LET replaced == ReplaceMatches(cmd, SelectSeq(cmd, IsPlaceHolder),
                                 inTargets, outTargets, pars)
  IN IF replaced = Failed THEN Failed ELSE WithPrepend(prepend, replaced)

\* The pieces a pattern is drawn from, and the values of the parameter a.
PatternPieces ==
  {Lit("cat "), PlaceHolder("o", "out"), PlaceHolder("os", "str"), PlaceHolder("i", "in"),
   PlaceHolder("is", "in"), PlaceHolder("p", "a"), PlaceHolder("o", "none")}

ParamValues == {<< >>, <<Lit("5")>>, <<PlaceHolder("o", "out")>>}

InTargetsChoices ==
  {<< >>} \cup {[i \in {"in"} |-> [path |-> f, doStream |-> d]] :
                   f \in {"", "f1"}, d \in BOOLEAN}

Patterns == UNION {[1..n -> PatternPieces] : n \in 1..MaxCmdLen}

InitFormat ==
  /\ ShellIdle /\ PortsIdle /\ ParamIdle /\ PipeIdle /\ GatherIdle
  /\ fmtCmd \in Patterns
  /\ fmtInTargets \in InTargetsChoices
  /\ fmtParams \in {[a |-> v] : v \in ParamValues}
  /\ fmtPrepend \in {"", "time"}
  /\ fmtResult = << >>

\* NewShellTask: t.Command = formatCommand(...)
FormatCommand ==
  /\ fmtResult = << >>
  /\ fmtResult' = formatCommand(fmtCmd, fmtInTargets, fmtOutTargets, fmtParams, fmtPrepend)
  /\ UNCHANGED <<shellVars, portVars, paramVars, pipeVars, gatherVars,
                 fmtCmd, fmtInTargets, fmtParams, fmtPrepend>>

NextFormat == FormatCommand

SpecFormat == InitFormat /\ [][NextFormat]_vars

\* ---- properties of formatCommand, checked under SpecFormat ----

\* What a placeholder of the pattern stands for: the temporary path of the
\* output for {o:N}, its FIFO path for {os:N}, the FIFO path of a streaming
\* input and the final path of any other input for {i:N}, the value of the
\* parameter for {p:N}; << >> when it stands for nothing.
StandsFor(piece) ==
  CASE piece.typ = "o" /\ piece.name \in DOMAIN fmtOutTargets ->
         <<Lit(fmtOutTargets[piece.name].path \o ".tmp")>>
    [] piece.typ = "os" /\ piece.name \in DOMAIN fmtOutTargets ->
         <<Lit(fmtOutTargets[piece.name].path \o ".fifo")>>
    [] piece.typ = "i" /\ piece.name \in DOMAIN fmtInTargets ->
         IF fmtInTargets[piece.name].path = "" THEN << >>
         ELSE IF fmtInTargets[piece.name].doStream
              THEN <<Lit(fmtInTargets[piece.name].path \o ".fifo")>>
              ELSE <<Lit(fmtInTargets[piece.name].path)>>
    [] piece.typ = "p" /\ piece.name \in DOMAIN fmtParams -> fmtParams[piece.name]
    [] OTHER -> << >>

\* Every placeholder of the pattern replaced, one by one, by what it stands for.
RECURSIVE EachReplaced(_)
EachReplaced(cmd) ==
  IF cmd = << >> THEN << >>
  ELSE (IF IsPlaceHolder(Head(cmd)) THEN StandsFor(Head(cmd)) ELSE <<Head(cmd)>>)
       \o EachReplaced(Tail(cmd))

\* Some placeholder of the pattern stands for nothing: an unknown port, an
\* in-target without path, a parameter without value, or the type "is".
SomeUnbound ==
  \E i \in 1..Len(fmtCmd) : IsPlaceHolder(fmtCmd[i]) /\ StandsFor(fmtCmd[i]) = << >>

\* No value of a parameter contains the text of a placeholder.
PlainParams ==
  \A a \in DOMAIN fmtParams : \A i \in 1..Len(fmtParams[a]) : ~IsPlaceHolder(fmtParams[a][i])

-----------------------------------------------------------------------------
\* ---- SpecFlow: generators -> in-port with merger -> shell process -> sink ----

FlowSources == <<"A", "B">>
FlowSourceSet == {FlowSources[i] : i \in 1..Len(FlowSources)}

\* The generators send at most MaxTasks IPs in all; the in-port "in" of the
\* shell process is connected to the Out port of each of them; the process has
\* the non-streaming output out and the streaming output str; the disk is empty.
InitFlow ==
  /\ OutPortsDoStream = [o \in OutPorts |-> o = "str"]
  /\ PathFormatters \in [OutPorts -> {"Static", "Extend"}]
  /\ InPorts = {"in"}
  /\ ShellParamPorts = {}
  /\ fs = Disk({})
  /\ runNo = 1
  /\ fatal = FALSE
  /\ ParamIdle /\ RestIdle
  /\ ports = WiredTo([p \in FlowSourceSet \cup {"in"} |-> NewFilePort], "in", FlowSources)
  /\ chans = [c \in ChannelsOf(ports) |-> NewChan]
  /\ \E n \in [FlowSourceSet -> 0..MaxTasks] :
        /\ n["A"] + n["B"] <= MaxTasks
        /\ nInputs = n["A"] + n["B"]
        /\ gen = [g \in FlowSourceSet |-> [paths |-> n[g], k |-> 0, i |-> 1, closed |-> FALSE]]
  /\ merger = [p \in {"in"} |-> [pc |-> "idle", i |-> 0, ip |-> << >>]]
  /\ running = TRUE
  /\ emitted = [p \in {"in"} |-> << >>]
  /\ recvd = [p \in {"in"} |-> << >>]
  /\ writes = [g \in FlowSourceSet |-> << >>]
  /\ connOrder = << >>
  /\ RunStart

NextFlow ==
  \/ \E g \in FlowSourceSet : GenSend(g)
  \/ \E g \in FlowSourceSet : GenClose(g)
  \/ MergeStart("in")
  \/ MergeRecv("in")
  \/ MergeEmit("in")
  \/ RunSteps

\* Every goroutine and every command that can take a step takes one in the end.
SpecFlow == InitFlow /\ [][NextFlow]_vars /\ WF_vars(NextFlow)

\* ---- properties of the workflow, checked under SpecFlow ----

\* Every Run has returned: the generators, the merger of the in-port, createTasks
\* and Run of the shell process; every channel on the way is closed and empty,
\* so the sink has seen every closure and has returned too.
AllReturned ==
  /\ \A g \in FlowSourceSet : gen[g].closed /\ gen[g].k = gen[g].paths
  /\ merger["in"].pc = "returned"
  /\ chans[InChan("in")].closed /\ chans[InChan("in")].buf = << >>
  /\ \A g \in FlowSourceSet :
        chans[InBoundChan("in", g)].closed /\ chans[InBoundChan("in", g)].buf = << >>
  /\ cpc = "closed" /\ pc = "done"
  /\ \A o \in OutPorts : outClosed[o] = 1 /\ outChan[o] = << >>
  /\ Len(tasks) = nInputs

\* No two tasks of the process have the same output path.
DistinctPaths ==
  nInputs <= 1 \/ \A o \in OutPorts : PathFormatters[o] = "Extend"

C13_OutputsClosedOnceAtReturn ==
  /\ [](/\ \A o \in OutPorts : outClosed[o] <= 1 /\ (pc = "done" => outClosed[o] = 1)
        /\ \A g \in FlowSourceSet :
              /\ gen[g].closed =>
                    \A i \in 1..Len(ports[g].outChans) : chans[ports[g].outChans[i]].closed
              /\ \A i, j \in 1..Len(ports[g].outChans) :
                    ports[g].outChans[i] = ports[g].outChans[j] => i = j)
  /\ [][/\ \A o \in OutPorts : outClosed[o] >= 1 => sent'[o] = sent[o]
        /\ \A g \in FlowSourceSet : \A i \in 1..Len(ports[g].outChans) :
              LET c == ports[g].outChans[i]
              IN /\ chans[c].closed =>
                      chans'[c].closed /\ Len(chans'[c].buf) <= Len(chans[c].buf)
                 /\ (~chans[c].closed /\ chans'[c].closed) =>
                      ~gen[g].closed /\ gen'[g].closed]_vars

C13_Witness ==
  /\ pc = "done" /\ ~fatal
  /\ \A o \in OutPorts : outClosed[o] = 1 /\ Len(sent[o]) = MaxTasks
  /\ \A g \in FlowSourceSet : gen[g].closed /\ gen[g].paths = 1

-----------------------------------------------------------------------------
\* ---- SpecPipe: a consumer process reads the streaming out-port "str" ----

\* The consumer is a shell process with one in-port, connected to "str", and one
\* non-streaming output whose path extends the path of the input; its command
\* reads {i:...} and writes {o:...}.  Its goroutines are modelled as those of
\* the producer are, with the steps in which its command opens and reads its input.

\* What the variables of the producer do while the consumer takes a step.
ProducerUnchanged ==
  UNCHANGED <<cfgVars, fs, runNo, pc, tasks, cur, toSend, anyPreviousFifosExists,
              outClosed, sent, cpc, inLeft, created, params, gathers, tpc, atomLeft,
              atomCur, execs, doneSent, doneClosed, route, doneOrder,
              portVars, paramVars, formatVars, gatherVars, piped>>

\* The in-port of the consumer is closed and drained.
ConsumerInClosed == outChan["str"] = << >> /\ outClosed["str"] >= 1

\* createTasks of the consumer receives an IP (receiveInputs), makes the task
\* and hands it to Run, which starts it: the consumer has no FIFO of its own to
\* create or to send (lines 119-148).
ConsumerRecv ==
  /\ ~fatal /\ piped /\ crun = "range"
  /\ outChan["str"] # << >>
  /\ ctasks' = Append(ctasks, Head(outChan["str"]))
  /\ outChan' = [outChan EXCEPT !["str"] = Tail(@)]
  /\ ctpc' = [ctpc EXCEPT ![Len(ctasks) + 1] = "execute"]
  /\ ProducerUnchanged
  /\ UNCHANGED <<fatal, crun, cwait, cfs, csent>>

\* createTasks of the consumer sees its in-port closed and closes the task
\* channel; the first loop of Run ends.
ConsumerRangeEnd ==
  /\ ~fatal /\ piped /\ crun = "range"
  /\ ConsumerInClosed
  /\ crun' = "wait"
  /\ ProducerUnchanged
  /\ UNCHANGED <<fatal, outChan, ctasks, cwait, ctpc, cfs, csent>>

\* Execute of a consumer task (line 339): anyOutputExists on its one output.
ConsumerExecute(k) ==
  /\ ~fatal /\ piped /\ ctpc[k] = "execute"
  /\ ctpc' = [ctpc EXCEPT ![k] =
                IF cfs[GetPath(ConsumerPath(ctasks[k]))] # 0
                   \/ cfs[GetTempPath(ConsumerPath(ctasks[k]))] # 0
                THEN "senddone" ELSE "command"]
  /\ ProducerUnchanged
  /\ UNCHANGED <<fatal, outChan, ctasks, crun, cwait, cfs, csent>>

\* bash starts the command of the task and opens its output, the temp file.
ConsumerCommandStart(k) ==
  /\ ~fatal /\ piped /\ ctpc[k] = "command"
  /\ cfs' = [cfs EXCEPT ![GetTempPath(ConsumerPath(ctasks[k]))] = k]
  /\ ctpc' = [ctpc EXCEPT ![k] = "opening"]
  /\ ProducerUnchanged
  /\ UNCHANGED <<fatal, outChan, ctasks, crun, cwait, csent>>

\* A command of the producer has the FIFO that consumer task k reads open for writing.
WriterPresent(k) ==
  \E t \in TaskIds :
     tpc[t] = "running" /\ GetFifoPath(OutPath(t, "str")) = InPathFor(ctasks[k])

\* The command opens its input, the path formatCommand gave it for {i:...}: a
\* missing file makes the command fail (Check ends the program); the open of a
\* FIFO returns when a writer has it open, the open of a file returns at once.
ConsumerOpen(k) ==
  /\ ~fatal /\ piped /\ ctpc[k] = "opening"
  /\ IF ~Exists(InPathFor(ctasks[k]))
     THEN fatal' = TRUE /\ UNCHANGED ctpc
     ELSE /\ ctasks[k].doStream => WriterPresent(k)
          /\ ctpc' = [ctpc EXCEPT ![k] = "reading"]
          /\ UNCHANGED fatal
  /\ ProducerUnchanged
  /\ UNCHANGED <<outChan, ctasks, crun, cwait, cfs, csent>>

\* The command has read to the end of its input, which for a FIFO comes when
\* no writer has it open any more, and exits; Atomize of the output begins.
ConsumerCommandExit(k) ==
  /\ ~fatal /\ piped /\ ctpc[k] = "reading"
  /\ ~WriterPresent(k)
  /\ ctpc' = [ctpc EXCEPT ![k] = "tempcheck"]
  /\ ProducerUnchanged
  /\ UNCHANGED <<fatal, outChan, ctasks, crun, cwait, cfs, csent>>

\* Atomize (ip.go lines 106-122): the loop ends when the temp file is seen.
ConsumerTempCheck(k) ==
  /\ ~fatal /\ piped /\ ctpc[k] = "tempcheck"
  /\ cfs[GetTempPath(ConsumerPath(ctasks[k]))] # 0
  /\ ctpc' = [ctpc EXCEPT ![k] = "rename"]
  /\ ProducerUnchanged
  /\ UNCHANGED <<fatal, outChan, ctasks, crun, cwait, cfs, csent>>

\* os.Rename of the temp file, or Check ends the program when it is gone.
ConsumerRename(k) ==
  /\ ~fatal /\ piped /\ ctpc[k] = "rename"
  /\ LET final == GetPath(ConsumerPath(ctasks[k]))
         temp == GetTempPath(ConsumerPath(ctasks[k]))
     IN IF cfs[temp] # 0
        THEN /\ cfs' = [cfs EXCEPT ![final] = cfs[temp], ![temp] = 0]
             /\ ctpc' = [ctpc EXCEPT ![k] = "senddone"]
             /\ UNCHANGED fatal
        ELSE fatal' = TRUE /\ UNCHANGED <<ctpc, cfs>>
  /\ ProducerUnchanged
  /\ UNCHANGED <<outChan, ctasks, crun, cwait, csent>>

\* The second loop of the consumer's Run takes the done signal of the next
\* task and sends its output IP on (lines 153-163).
ConsumerWaitDone ==
  /\ ~fatal /\ piped /\ crun = "wait"
  /\ cwait <= Len(ctasks) /\ ctpc[cwait] = "senddone"
  /\ ctpc' = [ctpc EXCEPT ![cwait] = "finished"]
  /\ csent' = Append(csent, cwait)
  /\ cwait' = cwait + 1
  /\ ProducerUnchanged
  /\ UNCHANGED <<fatal, outChan, ctasks, crun, cfs>>

\* The consumer's Run returns.
ConsumerReturn ==
  /\ ~fatal /\ piped /\ crun = "wait"
  /\ cwait > Len(ctasks)
  /\ crun' = "done"
  /\ ProducerUnchanged
  /\ UNCHANGED <<fatal, outChan, ctasks, cwait, ctpc, cfs, csent>>

\* The producer has the streaming output str and the non-streaming output out;
\* without in-port it makes one task, with one it makes MaxTasks; the disk is empty.
InitPipe ==
  /\ OutPortsDoStream = [o \in OutPorts |-> o = "str"]
  /\ InPorts \in {{}, {"in"}}
  /\ ShellParamPorts = {}
  /\ PathFormatters \in {[o \in OutPorts |-> "Static"], [o \in OutPorts |-> "Extend"]}
  /\ InPorts = {} => PathFormatters = [o \in OutPorts |-> "Static"]
  /\ nInputs = IF InPorts = {} THEN 0 ELSE MaxTasks
  /\ fs = Disk({})
  /\ runNo = 1
  /\ fatal = FALSE
  /\ RunStart
  /\ PortsIdle /\ ParamIdle /\ FormatIdle /\ GatherIdle
  /\ piped = TRUE
  /\ ConsumerStart

NextPipe ==
  \/ RunSteps
  \/ ConsumerRecv
  \/ ConsumerRangeEnd
  \/ \E k \in TaskIds : ConsumerExecute(k)
  \/ \E k \in TaskIds : ConsumerCommandStart(k)
  \/ \E k \in TaskIds : ConsumerOpen(k)
  \/ \E k \in TaskIds : ConsumerCommandExit(k)
  \/ \E k \in TaskIds : ConsumerTempCheck(k)
  \/ \E k \in TaskIds : ConsumerRename(k)
  \/ ConsumerWaitDone
  \/ ConsumerReturn

\* Every goroutine and every command that can take a step takes one in the end.
SpecPipe == InitPipe /\ [][NextPipe]_vars /\ WF_vars(NextPipe)

\* ---- properties of streaming between two processes, checked under SpecPipe ----

\* Both Run have returned; the consumer made a task of every IP of the producer
\* and sent the output of each on.
PipeDone ==
  /\ cpc = "closed" /\ pc = "done" /\ crun = "done"
  /\ Len(ctasks) = Len(tasks) /\ Len(csent) = Len(ctasks)

\* The program was ended by a command of the producer that failed.
PipeCommandFailed ==
  /\ CommandFailed
  /\ \A k \in 1..Len(ctasks) :
        /\ ctpc[k] = "rename" => cfs[GetTempPath(ConsumerPath(ctasks[k]))] # 0
        /\ ctpc[k] = "opening" => Exists(InPathFor(ctasks[k]))

\* Every task of the producer has a FIFO path of its own.
DistinctFifos ==
  InPorts = {} \/ nInputs <= 1 \/ PathFormatters["str"] = "Extend"

\* The consumer receives the IP while the command of the producer's task has
\* not exited, and the FIFO exists when the command of the consumer opens it.
StreamedInTime ==
  /\ [][Len(ctasks') = Len(ctasks) + 1 =>
          LET ip == ctasks'[Len(ctasks')]
          IN ip.doStream /\ ~CommandFinished(ip.task) /\ Exists(GetFifoPath(ip.path))]_vars
  /\ [](\A k \in 1..Len(ctasks) :
          /\ ctpc[k] = "opening" => Exists(InPathFor(ctasks[k]))
          /\ ctasks[k].task = k)

-----------------------------------------------------------------------------
\* ---- properties of the scheduling of a task, checked under Spec ----

\* The FIFO path of the streaming output o of task t.
FifoOf(t, o) == OutPath(t, o) \o ".fifo"

\* Run is at the test of line 124 for the task cur and makes it in this step.
TestsFifos == pc = "fifos" /\ pc' # "fifos"

C22_FileOutputsAfterTaskStreamClosed ==
  [][\A o \in NonStreamPorts :
        Len(sent'[o]) = Len(sent[o]) + 1 =>
           LET t == sent'[o][Len(sent'[o])].task
           IN /\ cpc = "closed" /\ pc = "sendout"
              /\ Len(tasks) = created
              /\ InPorts # {} => inLeft = 0
              /\ \A i \in 1..Len(tasks) : tasks[i] = i
              /\ t = tasks[Len(sent[o]) + 1]
              /\ doneSent[t] = 1]_vars

\* C22 witness: Run has returned with all its tasks; the second task signalled
\* done before the first, and the file IPs went out in creation order.
C22_Witness ==
  /\ pc = "done" /\ Len(tasks) = MaxTasks
  /\ ~OutPortsDoStream["out"]
  /\ Len(doneOrder) >= 2 /\ doneOrder[1] = 2
  /\ Len(sent["out"]) = MaxTasks
  /\ \A i \in 1..MaxTasks : sent["out"][i].task = i

\* ---- the errors of formatCommand, checked under SpecFormat ----

\* The piece is a placeholder without binding: an output whose port has no
\* target, an input whose port has no IP or an IP with the empty path, a
\* parameter without value, or the kind "is", for which nothing is substituted.
Unbound(piece) ==
  \/ piece.typ \in {"o", "os"} /\ piece.name \notin DOMAIN fmtOutTargets
  \/ piece.typ = "i" /\ piece.name \notin DOMAIN fmtInTargets
  \/ piece.typ = "i" /\ piece.name \in DOMAIN fmtInTargets
       /\ fmtInTargets[piece.name].path = ""
  \/ piece.typ = "p" /\ piece.name \notin DOMAIN fmtParams
  \/ piece.typ = "p" /\ piece.name \in DOMAIN fmtParams /\ fmtParams[piece.name] = << >>
  \/ piece.typ = "is"

\* C23: when the pattern holds a placeholder without binding, formatCommand
\* ends the program and returns no command, whatever else the pattern holds.
C23_UnboundPlaceHolderIsFatal ==
  (fmtResult # << >> /\ \E i \in 1..Len(fmtCmd) : Unbound(fmtCmd[i])) =>
     fmtResult = Failed

\* C23 witness: formatCommand has failed on a pattern whose only placeholder is
\* {is:in}, with a streaming IP bound to the port in.
C23_Witness ==
  /\ fmtCmd = <<Lit("cat "), PlaceHolder("is", "in")>>
  /\ fmtInTargets = [i \in {"in"} |-> [path |-> "f1", doStream |-> TRUE]]
  /\ fmtResult = Failed

-----------------------------------------------------------------------------
\* ---- SpecGather: createTasks of a process with several ports ----

\* Bound: the items one port delivers before it is closed.
MaxGather == 2

\* The ports a command pattern can give the process, in the order of the pattern.
GatherInNames == <<"in1", "in2">>
GatherParamNames == <<"p">>

\* The command pattern of the process: initPortsFromCmdPattern (lines 166-194)
\* makes one port for every placeholder, so every port has its placeholder.
GatherPattern ==
  <<Lit("cmd ")>>
    \o [i \in 1..Len(SelectSeq(GatherInNames, LAMBDA n : n \in gInPorts)) |->
          PlaceHolder("i", SelectSeq(GatherInNames, LAMBDA n : n \in gInPorts)[i])]
    \o [i \in 1..Len(SelectSeq(GatherParamNames, LAMBDA n : n \in gParamPorts)) |->
          PlaceHolder("p", SelectSeq(GatherParamNames, LAMBDA n : n \in gParamPorts)[i])]
    \o <<PlaceHolder("o", "out")>>

\* How many items were taken from the channel of port p so far.
TakenFrom(p) == Cardinality({i \in 1..Len(gtaken) : gtaken[i].port = p})

\* The next IP on the channel of in-port p, and the next value on the channel
\* of parameter port p.
NextIP(p) == [path |-> p \o "_" \o ToString(TakenFrom(p) + 1), doStream |-> FALSE]
NextValue(p) == <<Lit(p \o "_" \o ToString(TakenFrom(p) + 1))>>

\* The start of an iteration of the loop of createTasks (line 200): receiveInputs
\* begins with inPortsOpen = true and an empty map.
NewIteration ==
  [inTargets |-> << >>, inPortsOpen |-> TRUE, params |-> << >>, paramPortsOpen |-> TRUE,
   cmd |-> << >>]

InitGather ==
  /\ ShellIdle /\ PortsIdle /\ ParamIdle /\ FormatIdle /\ PipeIdle
  /\ gInPorts \in {{"in1"}, {"in1", "in2"}}
  /\ gParamPorts \in {{}, {"p"}}
  /\ gleft \in [gInPorts \cup gParamPorts -> 0..MaxGather]
  /\ gpc = "inputs"
  /\ gtoRecv = gInPorts
  /\ gcur = NewIteration
  /\ gtasks = << >>
  /\ gtaken = << >>

\* `inTarget, open := <-ichan` for one port of the range loop of receiveInputs
\* (lines 235-243): the map iteration yields the ports in any order.
RecvInput(p) ==
  /\ gpc = "inputs" /\ p \in gtoRecv
  /\ gtoRecv' = gtoRecv \ {p}
  /\ IF gleft[p] > 0
     THEN /\ gleft' = [gleft EXCEPT ![p] = @ - 1]
          /\ gcur' = [gcur EXCEPT !.inTargets = @ @@ (p :> NextIP(p))]
          /\ gtaken' = Append(gtaken, [port |-> p, item |-> NextIP(p)])
     ELSE /\ gcur' = [gcur EXCEPT !.inPortsOpen = FALSE]
          /\ UNCHANGED <<gleft, gtaken>>
  /\ UNCHANGED <<shellVars, portVars, paramVars, formatVars, pipeVars,
                 gInPorts, gParamPorts, gpc, gtasks>>

\* receiveInputs returns; receiveParams begins (line 203).
EndInputs ==
  /\ gpc = "inputs" /\ gtoRecv = {}
  /\ gpc' = "params"
  /\ gtoRecv' = gParamPorts
  /\ UNCHANGED <<shellVars, portVars, paramVars, formatVars, pipeVars,
                 gInPorts, gParamPorts, gleft, gcur, gtasks, gtaken>>

\* `pval, open := <-pchan` for one port of the range loop of receiveParams
\* (lines 252-260).
RecvParam(p) ==
  /\ gpc = "params" /\ p \in gtoRecv
  /\ gtoRecv' = gtoRecv \ {p}
  /\ IF gleft[p] > 0
     THEN /\ gleft' = [gleft EXCEPT ![p] = @ - 1]
          /\ gcur' = [gcur EXCEPT !.params = @ @@ (p :> NextValue(p))]
          /\ gtaken' = Append(gtaken, [port |-> p, item |-> NextValue(p)])
     ELSE /\ gcur' = [gcur EXCEPT !.paramPortsOpen = FALSE]
          /\ UNCHANGED <<gleft, gtaken>>
  /\ UNCHANGED <<shellVars, portVars, paramVars, formatVars, pipeVars,
                 gInPorts, gParamPorts, gpc, gtasks>>

\* receiveParams returns; the three termination tests (lines 205-216), then
\* NewShellTask with what was gathered (line 217): formatCommand ends the
\* program when a placeholder of the pattern has no binding.
TestAndBuild ==
  /\ gpc = "params" /\ gtoRecv = {}
  /\ IF ShouldBreak(Cardinality(gInPorts), Cardinality(gParamPorts),
                    gcur.inPortsOpen, gcur.paramPortsOpen)
     THEN gpc' = "closed" /\ UNCHANGED gcur
     ELSE LET cmd == formatCommand(GatherPattern, gcur.inTargets, fmtOutTargets,
                                   gcur.params, "")
          IN IF cmd = Failed
             THEN gpc' = "exit" /\ UNCHANGED gcur
             ELSE gpc' = "send" /\ gcur' = [gcur EXCEPT !.cmd = cmd]
  /\ UNCHANGED <<shellVars, portVars, paramVars, formatVars, pipeVars,
                 gInPorts, gParamPorts, gleft, gtoRecv, gtasks, gtaken>>

\* `ch <- t` (line 221): Run takes the task; the goroutine loops (line 200) or,
\* without ports, breaks (lines 222-225).
HandOver ==
  /\ gpc = "send"
  /\ gtasks' = Append(gtasks, [inTargets |-> gcur.inTargets, params |-> gcur.params,
                               cmd |-> gcur.cmd])
  /\ IF AfterHandOver(Cardinality(gInPorts), Cardinality(gParamPorts)) = "closed"
     THEN gpc' = "closed" /\ UNCHANGED <<gtoRecv, gcur>>
     ELSE gpc' = "inputs" /\ gtoRecv' = gInPorts /\ gcur' = NewIteration
  /\ UNCHANGED <<shellVars, portVars, paramVars, formatVars, pipeVars,
                 gInPorts, gParamPorts, gleft, gtaken>>

NextGather ==
  \/ \E p \in gInPorts : RecvInput(p)
  \/ EndInputs
  \/ \E p \in gParamPorts : RecvParam(p)
  \/ TestAndBuild
  \/ HandOver

SpecGather == InitGather /\ [][NextGather]_vars

-----------------------------------------------------------------------------
\* ---- C24 ----

\* C24: every task handed to the run loop has exactly one IP bound for each
\* in-port and exactly one value for each parameter port of the process, and in
\* a process with in-ports and parameter ports the task being handed over was
\* gathered with no port observed closed.
C24_TasksHaveEveryBinding ==
  /\ \A i \in 1..Len(gtasks) :
       /\ DOMAIN gtasks[i].inTargets = gInPorts
       /\ DOMAIN gtasks[i].params = gParamPorts
  /\ (gpc = "send" /\ gInPorts # {} /\ gParamPorts # {})
       => /\ gcur.inPortsOpen /\ gcur.paramPortsOpen
          /\ DOMAIN gcur.inTargets = gInPorts
          /\ DOMAIN gcur.params = gParamPorts

\* Two in-ports and a parameter port, two tasks handed over, the loop left.
C24_Witness ==
  /\ gpc = "closed"
  /\ gInPorts = {"in1", "in2"} /\ gParamPorts = {"p"}
  /\ Len(gtasks) = 2

-----------------------------------------------------------------------------
\* ---- C25 ----

\* How many tasks have the item as the in-target of port p.
TasksWith(p, item) ==
  Cardinality({j \in 1..Len(gtasks) :
                 p \in DOMAIN gtasks[j].inTargets /\ gtasks[j].inTargets[p] = item})

\* C25: when the loop of createTasks of a process with two or more in-ports
\* has been left, every IP taken from an in-port is an in-target of exactly
\* one task.
C25_EveryTakenIPBecomesATaskInput ==
  (gpc = "closed" /\ Cardinality(gInPorts) >= 2)
    => \A i \in 1..Len(gtaken) :
         gtaken[i].port \in gInPorts => TasksWith(gtaken[i].port, gtaken[i].item) = 1
====
